---------------------------- MODULE Spec2Model ----------------------------
(***************************************************************************)
(* Model of the ICESat-2 ATL03 subsetting reader (Atl03Reader.cpp).        *)
(*                                                                         *)
(* The reader's constructor spawns one worker thread per selected          *)
(* (track, pair) beam.  Each worker crops its beam to the spatial filter   *)
(* (Region), joins the ATL08 classification, walks the photons extent by   *)
(* extent, posts extent records to the shared output queue, and finally    *)
(* folds its statistics and counts its completion under the reader mutex.  *)
(*                                                                         *)
(* Arrays are TLA+ sequences; the C++ code indexes from 0, so element i    *)
(* of an array a is a[i+1] (operator At).  Distances are integers          *)
(* (meters); extent lengths are even so that extent_length/2 is exact.     *)
(***************************************************************************)
EXTENDS Integers, Sequences, FiniteSets, TLC

(***************************************************************************)
(* Program constants                                                       *)
(***************************************************************************)
NUM_TRACKS == 3
NUM_PAIR_TRACKS == 2
ALL_TRACKS == 0
ALL_ROWS == -1
ATL03_SEGMENT_LENGTH == 20
CNF_POSSIBLE_TEP == -2
CNF_SURFACE_HIGH == 4
SIGNAL_CONF_OFFSET == 2
QUALITY_NOMINAL == 0
QUALITY_POSSIBLE_TEP == 3
NUM_ATL08_CLASSES == 5
ATL08_UNCLASSIFIED == 0
ATL08_TOP_OF_CANOPY == 3
NUM_ATL03_SEGS_IN_ATL08_SEG == 5
INVALID_INDICE == -1
RECOBJ_HDR_SIZE == 8
RECORD_FORMAT_VERSION == 2
RESOURCE_NAME_LENGTH == 29
MAX_EXCEPTION_TEXT_SIZE == 256
MAX_KNN == 25
MAXIMUM_HSPREAD == 15000

(***************************************************************************)
(* Bounds of the model                                                     *)
(***************************************************************************)
MaxSegs == 3        \* segments per beam in the beams of the region crop
MaxExtentSegs == 2  \* segments per beam in the beams of the extent machine
MaxPhotons == 3     \* photons per beam in the generated beams
MaxExtents == 4     \* extents generated per beam (caps extent_counter)
MaxRetries == 1     \* timed-out posts per record (caps extents_retried)
MaxYapcSegs == 2    \* segments of the beams scored by YAPC
MaxYapcPhotons == 3 \* photons of the beams scored by YAPC
MaxSamples == 2     \* background samples of a beam
MaxQueries == 1     \* statistics queries per reader
MaxRecords == 2     \* records of a response parsed by CurlLib

(***************************************************************************)
(* Generic helpers                                                         *)
(***************************************************************************)
At(a, i) == a[i + 1]

RECURSIVE SumRange(_, _, _)
\* sum of a[lo .. hi-1] (0-based, hi exclusive)
SumRange(a, lo, hi) ==
    IF lo >= hi THEN 0 ELSE At(a, lo) + SumRange(a, lo + 1, hi)

(***************************************************************************)
(* H5Array: a dataset read with a (first_row, num_rows) window.            *)
(* num_rows = ALL_ROWS reads to the end of the dataset.                    *)
(***************************************************************************)
H5Read(a, first_row, num_rows) ==
    IF num_rows = ALL_ROWS
    THEN SubSeq(a, first_row + 1, Len(a))
    ELSE SubSeq(a, first_row + 1, first_row + num_rows)

\* H5Array::trim(offset): drop the first offset elements
Trim(a, offset) ==
    IF offset >= 0 /\ offset < Len(a) THEN SubSeq(a, offset + 1, Len(a)) ELSE a

(***************************************************************************)
(* Texts.  A string is a sequence of character codes.                      *)
(***************************************************************************)
RECURSIVE Digits(_)
\* the decimal digits of n >= 0, most significant first
Digits(n) == IF n < 10 THEN <<48 + n>> ELSE Append(Digits(n \div 10), 48 + (n % 10))

\* printf's %d
FormatInt(n) == IF n < 0 THEN <<45>> \o Digits(-n) ELSE Digits(n)

\* strstr(text, s) != NULL
Contains(text, s) ==
    \E i \in 1..(Len(text) - Len(s) + 1) : SubSeq(text, i, i + Len(s) - 1) = s

\* "empty spatial region"
EmptyRegionText ==
    <<101, 109, 112, 116, 121, 32, 115, 112, 97, 116, 105, 97, 108, 32,
      114, 101, 103, 105, 111, 110>>

\* "invalid atl03 signal confidence: "
InvalidConfidenceText ==
    <<105, 110, 118, 97, 108, 105, 100, 32, 97, 116, 108, 48, 51, 32, 115,
      105, 103, 110, 97, 108, 32, 99, 111, 110, 102, 105, 100, 101, 110,
      99, 101, 58, 32>>

\* "invalid atl03 photon quality: "
InvalidQualityText ==
    <<105, 110, 118, 97, 108, 105, 100, 32, 97, 116, 108, 48, 51, 32, 112,
      104, 111, 116, 111, 110, 32, 113, 117, 97, 108, 105, 116, 121, 58,
      32>>

\* "invalid atl08 classification: "
InvalidClassText ==
    <<105, 110, 118, 97, 108, 105, 100, 32, 97, 116, 108, 48, 56, 32, 99,
      108, 97, 115, 115, 105, 102, 105, 99, 97, 116, 105, 111, 110, 58, 32>>

\* "Invalid YAPC version specified: "
InvalidYapcText ==
    <<73, 110, 118, 97, 108, 105, 100, 32, 89, 65, 80, 67, 32, 118, 101,
      114, 115, 105, 111, 110, 32, 115, 112, 101, 99, 105, 102, 105, 101,
      100, 58, 32>>

\* "No reader threads were created, invalid track specified: "
NoThreadsText ==
    <<78, 111, 32, 114, 101, 97, 100, 101, 114, 32, 116, 104, 114, 101, 97,
      100, 115, 32, 119, 101, 114, 101, 32, 99, 114, 101, 97, 116, 101,
      100, 44, 32, 105, 110, 118, 97, 108, 105, 100, 32, 116, 114, 97, 99,
      107, 32, 115, 112, 101, 99, 105, 102, 105, 101, 100, 58, 32>>

\* "Unable to parse RGT from resource "
ParseRgtText ==
    <<85, 110, 97, 98, 108, 101, 32, 116, 111, 32, 112, 97, 114, 115, 101,
      32, 82, 71, 84, 32, 102, 114, 111, 109, 32, 114, 101, 115, 111, 117,
      114, 99, 101, 32>>

\* "Unable to parse Cycle from resource "
ParseCycleText ==
    <<85, 110, 97, 98, 108, 101, 32, 116, 111, 32, 112, 97, 114, 115, 101,
      32, 67, 121, 99, 108, 101, 32, 102, 114, 111, 109, 32, 114, 101, 115,
      111, 117, 114, 99, 101, 32>>

\* "Unable to parse Region from resource "
ParseRegionText ==
    <<85, 110, 97, 98, 108, 101, 32, 116, 111, 32, 112, 97, 114, 115, 101,
      32, 82, 101, 103, 105, 111, 110, 32, 102, 114, 111, 109, 32, 114,
      101, 115, 111, 117, 114, 99, 101, 32>>

(***************************************************************************)
(* RunTimeException(level, code, what) and the places that throw one.      *)
(***************************************************************************)
RunTimeException(level, code, what) ==
    [level |-> level, code |-> code, what |-> what]

NoException == RunTimeException("", "", << >>)

\* a dataset read (H5Array::join) that times out; the text is the HDF5
\* reader's and is kept empty here
ReadTimeout == RunTimeException("CRITICAL", "RTE_TIMEOUT", << >>)

\* throw RunTimeException(DEBUG, RTE_EMPTY_SUBSET, "empty spatial region")
EmptySubsetException ==
    RunTimeException("DEBUG", "RTE_EMPTY_SUBSET", EmptyRegionText)

InvalidConfidence(atl03_cnf) ==
    RunTimeException("CRITICAL", "RTE_ERROR",
                     InvalidConfidenceText \o FormatInt(atl03_cnf))

InvalidQuality(quality_ph) ==
    RunTimeException("CRITICAL", "RTE_ERROR",
                     InvalidQualityText \o FormatInt(quality_ph))

InvalidClass(atl08_class) ==
    RunTimeException("CRITICAL", "RTE_ERROR",
                     InvalidClassText \o FormatInt(atl08_class))

InvalidYapcVersion(version) ==
    RunTimeException("CRITICAL", "RTE_ERROR",
                     InvalidYapcText \o FormatInt(version))

\* the text ends with the newline of the format string
NoReaderThreads(track) ==
    RunTimeException("CRITICAL", "RTE_ERROR",
                     NoThreadsText \o FormatInt(track) \o <<10>>)

\* "Unable to parse <field> from resource %s: %s"
ParseFailure(field_text, resource, str) ==
    RunTimeException("CRITICAL", "RTE_ERROR",
                     field_text \o resource \o <<58, 32>> \o str)

(***************************************************************************)
(* Region: spatial crop of one beam.                                       *)
(* cnt  = geolocation/segment_ph_cnt (whole beam)                          *)
(* incl = result of the inclusion test (MathLib::inpoly, resp.             *)
(*        raster->includes) for each segment's reference photon            *)
(***************************************************************************)
RegionInit ==
    [first_segment |-> 0, num_segments |-> ALL_ROWS,
     first_photon |-> 0, num_photons |-> ALL_ROWS,
     found |-> FALSE, segment |-> 0,
     curr_num_photons |-> 0, last_segment |-> 0, mask |-> << >>]

\* mutant of PolyFirstPhotons: the first segment's photons are not counted
PolyFirstPhotons_mut(cnt, segment) == 0

PolyFirstPhotons(cnt, segment) == At(cnt, segment)

\* mutant of PolyBreak: an empty segment outside the polygon ends the crop
PolyBreak_mut(inclusion, count) == ~inclusion

\* if(!inclusion && segment_ph_cnt[segment] != 0) break
PolyBreak(inclusion, count) == ~inclusion /\ count # 0

RECURSIVE polyloop(_, _, _)
polyloop(cnt, incl, r) ==
    IF r.segment >= Len(cnt) THEN r
    ELSE LET segment == r.segment
             inclusion == At(incl, segment)
         IN IF ~r.found
            THEN IF inclusion /\ At(cnt, segment) # 0
                 THEN polyloop(cnt, incl,
                        [r EXCEPT !.found = TRUE, !.first_segment = segment,
                                  !.num_photons = PolyFirstPhotons(cnt, segment),
                                  !.segment = segment + 1])
                 ELSE polyloop(cnt, incl,
                        [r EXCEPT !.first_photon = @ + At(cnt, segment),
                                  !.segment = segment + 1])
            ELSE IF PolyBreak(inclusion, At(cnt, segment))
                 THEN r   \* break: full extent found
                 ELSE polyloop(cnt, incl,
                        [r EXCEPT !.num_photons = @ + At(cnt, segment),
                                  !.segment = segment + 1])

polyregion(cnt, incl) ==
    LET r == polyloop(cnt, incl, RegionInit)
    IN IF r.found THEN [r EXCEPT !.num_segments = r.segment - r.first_segment]
       ELSE r

RasterCurrPhotons(curr, cnt, segment) == curr + At(cnt, segment)

RECURSIVE rasterloop(_, _, _)
\* inclusion_mask[segment] is written for non-empty segments only; the
\* entries of empty segments keep whatever the allocation held (here FALSE,
\* they are never read: photons only live in non-empty segments)
rasterloop(cnt, incl, r) ==
    IF r.segment >= Len(cnt) THEN r
    ELSE LET segment == r.segment
             inclusion == At(incl, segment)
         IN IF At(cnt, segment) = 0
            THEN rasterloop(cnt, incl,
                    [r EXCEPT !.segment = segment + 1, !.mask = Append(@, FALSE)])
            ELSE LET m == [r EXCEPT !.segment = segment + 1,
                                    !.mask = Append(@, inclusion)]
                 IN IF ~r.found
                    THEN IF inclusion
                         THEN rasterloop(cnt, incl,
                                [m EXCEPT !.found = TRUE,
                                          !.first_segment = segment,
                                          !.last_segment = segment,
                                          !.curr_num_photons = At(cnt, segment),
                                          !.num_photons = At(cnt, segment)])
                         ELSE rasterloop(cnt, incl,
                                [m EXCEPT !.first_photon = @ + At(cnt, segment)])
                    ELSE LET c == RasterCurrPhotons(r.curr_num_photons, cnt, segment)
                         IN IF inclusion
                            THEN rasterloop(cnt, incl,
                                    [m EXCEPT !.curr_num_photons = c,
                                              !.num_photons = c,
                                              !.last_segment = segment])
                            ELSE rasterloop(cnt, incl,
                                    [m EXCEPT !.curr_num_photons = c])

\* mutant of rasterregion: the crop runs to the end of the array
rasterregion_mut(cnt, incl) ==
    IF Len(cnt) <= 0 THEN RegionInit
    ELSE LET r == rasterloop(cnt, incl, RegionInit)
         IN IF r.found
            THEN [r EXCEPT !.num_segments = r.segment - r.first_segment]
            ELSE r

rasterregion(cnt, incl) ==
    IF Len(cnt) <= 0 THEN RegionInit
    ELSE LET r == rasterloop(cnt, incl, RegionInit)
         IN IF r.found
            THEN [r EXCEPT !.num_segments = r.last_segment - r.first_segment + 1]
            ELSE r

\* Region::Region.  filter is "none", "poly" or "raster".
\* Result: the crop, whether EMPTY_SUBSET is thrown, the trimmed
\* segment_ph_cnt array and the inclusion pointer (mask from first_segment).
Region(cnt, incl, filter) ==
    LET r == IF filter = "raster" THEN rasterregion(cnt, incl)
             ELSE IF filter = "poly" THEN polyregion(cnt, incl)
             ELSE RegionInit
        empty == filter # "none" /\ r.num_photons <= 0
    IN [first_segment |-> r.first_segment, num_segments |-> r.num_segments,
        first_photon |-> r.first_photon, num_photons |-> r.num_photons,
        empty |-> empty,
        segment_ph_cnt |-> IF filter = "none" \/ empty THEN cnt
                           ELSE Trim(cnt, r.first_segment),
        has_mask |-> (filter = "raster" /\ Len(cnt) > 0),
        inclusion_ptr |-> IF filter = "raster" /\ r.found
                          THEN SubSeq(r.mask, r.first_segment + 1, Len(r.mask))
                          ELSE r.mask]

(***************************************************************************)
(* Atl08Class::classify: join of the ATL03 photons with the ATL08          *)
(* signal-photon rows.  rows[i] = [seg |-> ph_segment_id,                  *)
(* indx |-> classed_pc_indx, flag |-> classed_pc_flag].                    *)
(* The result keeps, besides the classification array, the value of the    *)
(* atl08_photon cursor after every ATL03 photon and the row matched to     *)
(* every ATL03 photon (0-based row index, -1 for none).                    *)
(***************************************************************************)
RECURSIVE GoToSegment(_, _, _)
GoToSegment(rows, atl08_photon, atl03_segment) ==
    IF atl08_photon < Len(rows) /\ At(rows, atl08_photon).seg < atl03_segment
    THEN GoToSegment(rows, atl08_photon + 1, atl03_segment)
    ELSE atl08_photon

RECURSIVE GoToIndex_mut(_, _, _, _)
\* mutant of GoToIndex: the row with the photon's own index is skipped too
GoToIndex_mut(rows, atl08_photon, atl03_segment, atl03_count) ==
    IF /\ atl08_photon < Len(rows)
       /\ At(rows, atl08_photon).seg = atl03_segment
       /\ At(rows, atl08_photon).indx <= atl03_count
    THEN GoToIndex_mut(rows, atl08_photon + 1, atl03_segment, atl03_count)
    ELSE atl08_photon

RECURSIVE GoToIndex(_, _, _, _)
GoToIndex(rows, atl08_photon, atl03_segment, atl03_count) ==
    IF /\ atl08_photon < Len(rows)
       /\ At(rows, atl08_photon).seg = atl03_segment
       /\ At(rows, atl08_photon).indx < atl03_count
    THEN GoToIndex(rows, atl08_photon + 1, atl03_segment, atl03_count)
    ELSE atl08_photon

RowMatches(rows, atl08_photon, atl03_segment, atl03_count) ==
    /\ atl08_photon < Len(rows)
    /\ At(rows, atl08_photon).seg = atl03_segment
    /\ At(rows, atl08_photon).indx = atl03_count

ClassifyInit ==
    [classification |-> << >>, cursor |-> << >>, matched |-> << >>,
     atl08_photon |-> 0, land_index |-> << >>]

RECURSIVE classifyloop(_, _, _, _, _, _)
\* s = atl03_segment_index, c = atl03_count (1-based), k = loop state
classifyloop(rows, segment_id, cnt, s, c, k) ==
    IF s >= Len(segment_id) THEN k
    ELSE IF c > At(cnt, s) THEN classifyloop(rows, segment_id, cnt, s + 1, 1, k)
    ELSE LET atl03_segment == At(segment_id, s)
             a == GoToIndex(rows,
                            GoToSegment(rows, k.atl08_photon, atl03_segment),
                            atl03_segment, c)
         IN IF RowMatches(rows, a, atl03_segment, c)
            THEN classifyloop(rows, segment_id, cnt, s, c + 1,
                    [classification |-> Append(k.classification,
                                               At(rows, a).flag % 256),
                     cursor |-> Append(k.cursor, a + 1),
                     matched |-> Append(k.matched, a),
                     atl08_photon |-> a + 1, land_index |-> << >>])
            ELSE classifyloop(rows, segment_id, cnt, s, c + 1,
                    [classification |-> Append(k.classification,
                                               ATL08_UNCLASSIFIED),
                     cursor |-> Append(k.cursor, a),
                     matched |-> Append(k.matched, -1),
                     atl08_photon |-> a, land_index |-> << >>])

\* segment_id is atl03.segment_id (cropped), cnt is region.segment_ph_cnt
classify(rows, segment_id, cnt) ==
    classifyloop(rows, segment_id, cnt, 0, 1, ClassifyInit)

(***************************************************************************)
(* Ancillary fields.  A field list of the parameters is a sequence of      *)
(* field names, the empty sequence when the list is not given; a           *)
(* dictionary maps the names of its list to the arrays read for them.      *)
(***************************************************************************)
\* the segment of each photon, in photon order (0-based segment indexes)
RECURSIVE PhotonSegments(_, _)
PhotonSegments(cnt, segment_index) ==
    IF segment_index >= Len(cnt) THEN << >>
    ELSE [i \in 1..At(cnt, segment_index) |-> segment_index]
            \o PhotonSegments(cnt, segment_index + 1)

\* the names of a field list
FieldNames(field_list) == { field_list[i] : i \in 1..Len(field_list) }

RECURSIVE GoToLandSegment(_, _, _)
\* while(atl08_segment_index < segment_id_beg.size &&
\*       segment_id_beg[atl08_segment_index] + NUM_ATL03_SEGS_IN_ATL08_SEG
\*           <= atl03_segment)
GoToLandSegment(segment_id_beg, atl08_segment_index, atl03_segment) ==
    IF /\ atl08_segment_index < Len(segment_id_beg)
       /\ At(segment_id_beg, atl08_segment_index)
            + NUM_ATL03_SEGS_IN_ATL08_SEG <= atl03_segment
    THEN GoToLandSegment(segment_id_beg, atl08_segment_index + 1,
                         atl03_segment)
    ELSE atl08_segment_index

RECURSIVE LandSegmentIndexes(_, _, _, _)
\* the atl08_segment_index that the loop over the ATL03 segments holds in
\* each of the segments from s on
LandSegmentIndexes(segment_id_beg, segment_id, s, atl08_segment_index) ==
    IF s >= Len(segment_id) THEN << >>
    ELSE LET a == GoToLandSegment(segment_id_beg, atl08_segment_index,
                                  At(segment_id, s))
         IN <<a>> \o LandSegmentIndexes(segment_id_beg, segment_id, s + 1, a)

\* anc_seg_indices[atl03_photon]: the land segment of a photon that has a
\* row, the invalid index of a photon that has none
AncSegIndices(segment_id_beg, segment_id, cnt, matched) ==
    LET land == LandSegmentIndexes(segment_id_beg, segment_id, 0, 0)
        seg == PhotonSegments(cnt, 0)
    IN [i \in 1..Len(matched) |->
            IF matched[i] # -1 THEN At(land, seg[i]) ELSE INVALID_INDICE]

\* the arrays of the ancillary fields: the geolocation and photon fields
\* are read over the cropped range, the ATL08 fields whole
AncillaryData(p, d, region, k) ==
    [anc_geo_data |->
        [f \in FieldNames(p.atl03_geo_fields) |->
            H5Read(d.anc_geo[f], region.first_segment, region.num_segments)],
     anc_ph_data |->
        [f \in FieldNames(p.atl03_ph_fields) |->
            H5Read(d.anc_ph[f], region.first_photon, region.num_photons)],
     anc_seg_data |-> [f \in FieldNames(p.atl08_fields) |-> d.anc_seg[f]],
     anc_seg_indices |->
        IF p.atl08_fields # << >>
        THEN AncSegIndices(d.segment_id_beg,
                           H5Read(d.seg_id, region.first_segment,
                                  region.num_segments),
                           region.segment_ph_cnt, k.matched)
        ELSE << >>]

NoAncillary ==
    [anc_geo_data |-> << >>, anc_ph_data |-> << >>, anc_seg_data |-> << >>,
     anc_seg_indices |-> << >>]

(***************************************************************************)
(* PhoREAL fields and the ABoVE classifier of Atl08Class::classify.        *)
(* Elevations are whole degrees and reliefs whole meters.                  *)
(***************************************************************************)
\* atl03.solar_elevation[atl03_segment]: the array holds one value for each
\* segment of the crop and is read at the segment's id; a read past the
\* end of the array gives whatever lies there
SolarElevationRead(solar_elevation, atl03_segment, beyond) ==
    IF atl03_segment >= 0 /\ atl03_segment < Len(solar_elevation)
    THEN At(solar_elevation, atl03_segment)
    ELSE beyond

\* mutant of AboveReassigns: the relief is not looked at
AboveReassigns_mut(solar, spot, signal_conf, relief) ==
    /\ solar <= 5
    /\ spot \in {1, 3, 5}
    /\ signal_conf = CNF_SURFACE_HIGH

\* the test of the ABoVE classifier on a photon that is not top of canopy
AboveReassigns(solar, spot, signal_conf, relief) ==
    /\ solar <= 5
    /\ spot \in {1, 3, 5}
    /\ signal_conf = CNF_SURFACE_HIGH
    /\ relief >= 0 /\ relief < 35

\* the classification array after the ABoVE classifier has run on the
\* photons that have a row; beyond[i] is what a read past the end of the
\* solar elevation array gives for photon i
AboveClassifier(d, atl03, cnt, k, beyond) ==
    LET seg == PhotonSegments(cnt, 0)
    IN [i \in 1..Len(k.classification) |->
          IF /\ k.matched[i] # -1
             /\ k.classification[i] # ATL08_TOP_OF_CANOPY
             /\ AboveReassigns(
                    SolarElevationRead(atl03.solar_elevation,
                                       At(atl03.segment_id, seg[i]),
                                       beyond[i]),
                    d.spot, atl03.ph[i].cnf, At(d.ph_h, k.matched[i]))
          THEN ATL08_TOP_OF_CANOPY
          ELSE k.classification[i]]

\* Atl08Class::classify with the PhoREAL stage: land_index is the
\* atl08_segment_index from which the land cover, snow cover or ancillary
\* index of each photon with a row is taken
Atl08Class(p, d, atl03, region, beyond) ==
    LET k == classify(d.rows, atl03.segment_id, region.segment_ph_cnt)
    IN [classification |->
            IF p.stage_phoreal /\ p.above_classifier
            THEN AboveClassifier(d, atl03, region.segment_ph_cnt, k, beyond)
            ELSE k.classification,
        cursor |-> k.cursor, matched |-> k.matched,
        atl08_photon |-> k.atl08_photon,
        land_index |->
            IF p.stage_phoreal \/ p.atl08_fields # << >>
            THEN AncSegIndices(d.segment_id_beg, atl03.segment_id,
                               region.segment_ph_cnt, k.matched)
            ELSE << >>]

\* what the reads past the end of the solar elevation array can give
BeyondValues(p, n) ==
    IF p.stage_atl08 /\ p.stage_phoreal /\ p.above_classifier
    THEN [1..n -> {0, 90}]
    ELSE {[i \in 1..n |-> 0]}

\* the element of a record for an invalid index: every byte is 0xFF
FilledElement == <<"0xFF">>

\* mutant of generateAncillaryRecords: the element of an invalid index is
\* read from the array
generateAncillaryRecords_mut(b, extent_counter, field_list, field_dict, type, indices) ==
    [i \in 1..Len(field_list) |->
        [type |-> "ancrec", beam |-> b, extent_counter |-> extent_counter,
         anc_type |-> type, field_index |-> i - 1,
         num_elements |-> Len(indices),
         data |-> [k \in 1..Len(indices) |->
                      IF indices[k] # INVALID_INDICE
                      THEN At(field_dict[field_list[i]], indices[k])
                      ELSE At(field_dict[field_list[i]], 0)]]]

\* generateAncillaryRecords: one record for each field of the list, in the
\* order of the list, with one element for each index
generateAncillaryRecords(b, extent_counter, field_list, field_dict, type, indices) ==
    [i \in 1..Len(field_list) |->
        [type |-> "ancrec", beam |-> b, extent_counter |-> extent_counter,
         anc_type |-> type, field_index |-> i - 1,
         num_elements |-> Len(indices),
         data |-> [k \in 1..Len(indices) |->
                      IF indices[k] # INVALID_INDICE
                      THEN At(field_dict[field_list[i]], indices[k])
                      ELSE FilledElement]]]

\* the index lists of an extent, which the walk extends with
\* current_photon, current_segment and anc_seg_indices[current_photon]
\* where it adds a photon to the extent
PhotonIndices(extent_photons) ==
    [k \in 1..Len(extent_photons) |-> extent_photons[k].index]

SegmentIndices(extent_photons) ==
    [k \in 1..Len(extent_photons) |-> extent_photons[k].segment]

Atl08Indices(anc, extent_photons) ==
    [k \in 1..Len(extent_photons) |->
        At(anc.anc_seg_indices, extent_photons[k].index)]

\* the records of one extent: the extent record, then the records of the
\* photon fields, of the geolocation fields and of the ATL08 fields
RecordList(p, b, extent_counter, anc, extent_photons, extent_record) ==
    <<extent_record>>
    \o generateAncillaryRecords(b, extent_counter, p.atl03_ph_fields,
                                anc.anc_ph_data, "PHOTON_ANC_TYPE",
                                PhotonIndices(extent_photons))
    \o generateAncillaryRecords(b, extent_counter, p.atl03_geo_fields,
                                anc.anc_geo_data, "EXTENT_ANC_TYPE",
                                SegmentIndices(extent_photons))
    \o generateAncillaryRecords(b, extent_counter, p.atl08_fields,
                                anc.anc_seg_data, "ATL08_ANC_TYPE",
                                Atl08Indices(anc, extent_photons))

\* mutant of ExtentMessage: the records are always put in a container
ExtentMessage_mut(b, rec_list) ==
    [type |-> "conrec", beam |-> b, records |-> rec_list]

\* if(rec_list.size() == 1) postRecord(*rec_list[0]) else the records are
\* posted in one container record
ExtentMessage(b, rec_list) ==
    IF Len(rec_list) = 1 THEN rec_list[1]
    ELSE [type |-> "conrec", beam |-> b, records |-> rec_list]

(***************************************************************************)
(* The datasets of one worker after Region, Atl03Data and classify.        *)
(* d is the beam as stored in the granule:                                 *)
(*   d.cnt, d.incl, d.dist_x, d.seg_id  per segment                        *)
(*   d.ph                               per photon: [along, cnf, quality,  *)
(*                                      score]                             *)
(*   d.rows                             the ATL08 signal-photon rows       *)
(*   d.delta_time                       geolocation/delta_time per segment *)
(*   d.bckgrd_delta_time, d.bckgrd_rate the background samples of the beam *)
(* The YAPC score array is taken from d.ph[i].score.                       *)
(***************************************************************************)
Atl03Data(d, region) ==
    [segment_dist_x |-> H5Read(d.dist_x, region.first_segment, region.num_segments),
     segment_id     |-> H5Read(d.seg_id, region.first_segment, region.num_segments),
     segment_delta_time |->
        H5Read(d.delta_time, region.first_segment, region.num_segments),
     bckgrd_delta_time |-> d.bckgrd_delta_time,
     bckgrd_rate    |-> d.bckgrd_rate,
     solar_elevation |->
        H5Read(d.solar_elevation, region.first_segment, region.num_segments),
     ph             |-> H5Read(d.ph, region.first_photon, region.num_photons)]

(***************************************************************************)
(* Extent state machine (subsettingThread, the loop over extents).         *)
(***************************************************************************)
ExtentLengthMeters(p) ==
    IF p.dist_in_seg THEN p.extent_length * ATL03_SEGMENT_LENGTH
    ELSE p.extent_length

TrackStateInit(atl03) ==
    [ph_in |-> 0, seg_in |-> 0, seg_ph |-> 0, start_segment |-> 0,
     start_distance |-> At(atl03.segment_dist_x, 0), seg_distance |-> 0,
     track_complete |-> FALSE, extent_segment |-> 0, extent_valid |-> TRUE,
     bckgrd_in |-> 0]

RECURSIVE GoToPhotonSegment(_, _, _)
\* while(current_segment < size && current_count > segment_ph_cnt[current_segment])
GoToPhotonSegment(cnt, current_segment, current_count) ==
    IF current_segment < Len(cnt) /\ current_count > At(cnt, current_segment)
    THEN GoToPhotonSegment(cnt, current_segment + 1, 1)
    ELSE [current_segment |-> current_segment, current_count |-> current_count]

CnfAccepted(p, atl03_cnf) == p.atl03_cnf[atl03_cnf + SIGNAL_CONF_OFFSET]

QualityAccepted(p, quality_ph) == p.quality_ph[quality_ph]

ClassAccepted(p, atl08_class) == p.atl08_class[atl08_class]

\* mutant of ScoreAccepted: the YAPC threshold is not applied
ScoreAccepted_mut(p, yapc_score) == TRUE

ScoreAccepted(p, yapc_score) == ~(yapc_score < p.yapc_score)

\* the do { ... } while(false) block: "reject", "accept", or the test
\* that throws ("throw_cnf", "throw_quality", "throw_class")
PhotonTest(p, ph, class, region, current_segment) ==
    IF ph.cnf < CNF_POSSIBLE_TEP \/ ph.cnf > CNF_SURFACE_HIGH THEN "throw_cnf"
    ELSE IF ~CnfAccepted(p, ph.cnf) THEN "reject"
    ELSE IF ph.quality < QUALITY_NOMINAL \/ ph.quality > QUALITY_POSSIBLE_TEP
         THEN "throw_quality"
    ELSE IF ~QualityAccepted(p, ph.quality) THEN "reject"
    ELSE IF p.stage_atl08 /\ (class < 0 \/ class >= NUM_ATL08_CLASSES)
         THEN "throw_class"
    ELSE IF p.stage_atl08 /\ ~ClassAccepted(p, class) THEN "reject"
    ELSE IF p.stage_yapc /\ ~ScoreAccepted(p, ph.score) THEN "reject"
    ELSE IF region.has_mask /\ ~At(region.inclusion_ptr, current_segment)
         THEN "reject"
    ELSE "accept"

\* the exception thrown by the failing range test
PhotonException(test, ph, class) ==
    IF test = "throw_cnf" THEN InvalidConfidence(ph.cnf)
    ELSE IF test = "throw_quality" THEN InvalidQuality(ph.quality)
    ELSE IF test = "throw_class" THEN InvalidClass(class)
    ELSE NoException

\* mutant of WithinLength: a photon at exactly the extent length is within
WithinLength_mut(p, x_atc, along_track_segments) ==
    \/ ~p.dist_in_seg /\ x_atc <= p.extent_length
    \/ p.dist_in_seg /\ along_track_segments <= p.extent_length

WithinLength(p, x_atc, along_track_segments) ==
    \/ ~p.dist_in_seg /\ x_atc < p.extent_length
    \/ p.dist_in_seg /\ along_track_segments < p.extent_length

\* mutant of StepReached: a photon at exactly the extent step does not
\* start the next extent
StepReached_mut(p, x_atc, along_track_segments) ==
    \/ ~p.dist_in_seg /\ x_atc > p.extent_step
    \/ p.dist_in_seg /\ along_track_segments > p.extent_step

StepReached(p, x_atc, along_track_segments) ==
    \/ ~p.dist_in_seg /\ x_atc >= p.extent_step
    \/ p.dist_in_seg /\ along_track_segments >= p.extent_step

\* locals of one extent's photon walk
WalkInit(st) ==
    [current_photon |-> st.ph_in, current_segment |-> st.seg_in,
     current_count |-> st.seg_ph,
     extent_complete |-> FALSE, step_complete |-> FALSE,
     ph_in |-> st.ph_in, seg_in |-> st.seg_in, seg_ph |-> st.seg_ph,
     track_complete |-> FALSE, thrown |-> FALSE, exception |-> NoException,
     extent_photons |-> << >>, visited |-> << >>, tested |-> << >>]

RECURSIVE Walk(_, _, _, _, _, _)
\* while(!extent_complete || !step_complete) { ... }
Walk(p, region, atl03, class, st, w) ==
    IF w.extent_complete /\ w.step_complete THEN w
    ELSE
    LET g == GoToPhotonSegment(region.segment_ph_cnt, w.current_segment,
                               w.current_count + 1)
        current_segment == g.current_segment
        current_count == g.current_count
        current_photon == w.current_photon
    IN IF current_segment >= Len(atl03.segment_dist_x)
       THEN [w EXCEPT !.current_segment = current_segment,
                      !.current_count = current_count,
                      !.track_complete = TRUE]
       ELSE
       LET ph == At(atl03.ph, current_photon)
           delta_distance == At(atl03.segment_dist_x, current_segment)
                                - st.start_distance
           x_atc == delta_distance + ph.along
           along_track_segments == current_segment - st.extent_segment
           latch == ~w.step_complete /\ StepReached(p, x_atc, along_track_segments)
           within == WithinLength(p, x_atc, along_track_segments)
           atl08_class == IF p.stage_atl08 THEN At(class, current_photon)
                          ELSE ATL08_UNCLASSIFIED
           test == IF within
                   THEN PhotonTest(p, ph, atl08_class, region, current_segment)
                   ELSE "outside"
           w1 == [w EXCEPT
                    !.current_segment = current_segment,
                    !.current_count = current_count,
                    !.ph_in = IF latch THEN current_photon ELSE @,
                    !.seg_in = IF latch THEN current_segment ELSE @,
                    !.seg_ph = IF latch THEN current_count - 1 ELSE @,
                    !.step_complete = @ \/ latch,
                    !.visited = Append(@, [index |-> current_photon,
                                           segment |-> current_segment,
                                           count |-> current_count,
                                           x_atc |-> x_atc,
                                           along_track_segments |->
                                              along_track_segments]),
                    !.tested = IF within
                               THEN Append(@, [index |-> current_photon,
                                               atl03_cnf |-> ph.cnf,
                                               quality_ph |-> ph.quality,
                                               atl08_class |-> atl08_class])
                               ELSE @]
       IN IF test \in {"throw_cnf", "throw_quality", "throw_class"}
          THEN [w1 EXCEPT !.thrown = TRUE,
                          !.exception = PhotonException(test, ph, atl08_class)]
          ELSE
          LET w2 == [w1 EXCEPT
                       !.extent_photons =
                          IF test = "accept"
                          THEN Append(@, [index |-> current_photon,
                                          segment |-> current_segment,
                                          x_atc |-> x_atc - (ExtentLengthMeters(p) \div 2),
                                          atl08_class |-> atl08_class,
                                          atl03_cnf |-> ph.cnf,
                                          quality_ph |-> ph.quality,
                                          yapc_score |-> IF p.stage_yapc
                                                         THEN ph.score ELSE 0])
                          ELSE @,
                       !.extent_complete = @ \/ ~within,
                       !.current_photon = current_photon + 1]
          IN IF w2.current_photon >= Len(atl03.ph)
             THEN [w2 EXCEPT !.track_complete = TRUE]
             ELSE Walk(p, region, atl03, class, st, w2)

SegmentCorrection(dist_x, start_segment) ==
    (At(dist_x, start_segment + 1) - At(dist_x, start_segment))
        - ATL03_SEGMENT_LENGTH

RECURSIVE ApplyCorrection(_, _, _)
\* meters mode: absorb the spacing of every crossed segment
ApplyCorrection(dist_x, start_distance, start_segment) ==
    IF /\ (start_segment + 1) < Len(dist_x)
       /\ start_distance >= At(dist_x, start_segment + 1)
    THEN ApplyCorrection(dist_x,
            start_distance + SegmentCorrection(dist_x, start_segment),
            start_segment + 1)
    ELSE [start_distance |-> start_distance, start_segment |-> start_segment]

\* start_distance / start_segment for the next extent
NextStart(p, atl03, st) ==
    IF ~p.dist_in_seg
    THEN ApplyCorrection(atl03.segment_dist_x,
                         st.start_distance + p.extent_step, st.start_segment)
    ELSE LET next_segment == st.extent_segment + p.extent_step
         IN [start_distance |-> IF next_segment < Len(atl03.segment_dist_x)
                                THEN At(atl03.segment_dist_x, next_segment)
                                ELSE st.start_distance,
             start_segment |-> st.start_segment]

ExtentValid(p, extent_photons) ==
    /\ ~(Len(extent_photons) < p.minimum_photon_count)
    /\ ~(/\ Len(extent_photons) > 1
         /\ extent_photons[Len(extent_photons)].x_atc - extent_photons[1].x_atc
                < p.along_track_spread)

\* One iteration of the loop over extents, up to the point where the extent
\* is validated: the new track state, the photons and whether the walk threw.
Extent(p, region, atl03, class, st) ==
    LET st0 == [st EXCEPT !.extent_segment = st.seg_in, !.extent_valid = TRUE]
        w == Walk(p, region, atl03, class, st0, WalkInit(st0))
        n == NextStart(p, atl03, st0)
    IN [thrown |-> w.thrown,
        exception |-> w.exception,
        extent_photons |-> w.extent_photons,
        visited |-> w.visited,
        tested |-> w.tested,
        state |-> [st0 EXCEPT
                     !.ph_in = w.ph_in, !.seg_in = w.seg_in, !.seg_ph = w.seg_ph,
                     !.track_complete = w.track_complete,
                     !.seg_distance = st0.start_distance
                                        + (ExtentLengthMeters(p) \div 2),
                     !.start_distance = n.start_distance,
                     !.start_segment = n.start_segment,
                     !.extent_valid = ExtentValid(p, w.extent_photons)]]

\* mutant of calculateBackground: no interpolation, the rate of the sample
\* at the cursor
calculateBackground_mut(st, atl03) ==
    LET size == Len(atl03.bckgrd_rate)
        segment_time == At(atl03.segment_delta_time, st.extent_segment)
        found == { k \in st.bckgrd_in..(size - 1) :
                     At(atl03.bckgrd_delta_time, k) >= segment_time }
        at == IF found = {} THEN size
              ELSE CHOOSE k \in found : \A j \in found : k <= j
    IN [bckgrd_in |-> at,
        background_rate |->
            [num |-> At(atl03.bckgrd_rate, IF at = size THEN size - 1 ELSE at),
             den |-> 1]]

RECURSIVE calculateBackground(_, _)
\* The rate is the fraction num / den of integers; den is bckgrd_run when the
\* rate is interpolated (a run of 0 leaves den = 0: the division by zero).
calculateBackground(st, atl03) ==
    LET size == Len(atl03.bckgrd_rate) IN
    IF ~(st.bckgrd_in < size)
    THEN [bckgrd_in |-> st.bckgrd_in,
          background_rate |-> [num |-> At(atl03.bckgrd_rate, size - 1),
                               den |-> 1]]
    ELSE
    LET curr_bckgrd_time == At(atl03.bckgrd_delta_time, st.bckgrd_in)
        segment_time == At(atl03.segment_delta_time, st.extent_segment)
    IN IF curr_bckgrd_time >= segment_time
       THEN IF st.bckgrd_in > 0
            THEN LET prev_bckgrd_time == At(atl03.bckgrd_delta_time, st.bckgrd_in - 1)
                     prev_bckgrd_rate == At(atl03.bckgrd_rate, st.bckgrd_in - 1)
                     curr_bckgrd_rate == At(atl03.bckgrd_rate, st.bckgrd_in)
                     bckgrd_run == curr_bckgrd_time - prev_bckgrd_time
                     bckgrd_rise == curr_bckgrd_rate - prev_bckgrd_rate
                     segment_to_bckgrd_delta == segment_time - prev_bckgrd_time
                 IN [bckgrd_in |-> st.bckgrd_in,
                     background_rate |->
                        [num |-> bckgrd_rise * segment_to_bckgrd_delta
                                    + prev_bckgrd_rate * bckgrd_run,
                         den |-> bckgrd_run]]
            ELSE [bckgrd_in |-> st.bckgrd_in,
                  background_rate |-> [num |-> At(atl03.bckgrd_rate, 0),
                                       den |-> 1]]
       ELSE calculateBackground([st EXCEPT !.bckgrd_in = @ + 1], atl03)

(***************************************************************************)
(* YapcScore.  Distances, heights and windows are integers (meters), the   *)
(* windows even so that their halves are exact.  A score is kept as the    *)
(* value that the code converts to uint8_t: [defined, value], where value  *)
(* is the integer part of the double and defined is FALSE when the double  *)
(* is the result of 0/0.                                                   *)
(*   y.cnt, y.dist_x       segment_ph_cnt, segment_dist_x of the region    *)
(*   y.along, y.h          dist_ph_along, h_ph of the photons              *)
(*   s                     the yapc settings: version, knn, min_knn,       *)
(*                         win_x, win_h                                    *)
(***************************************************************************)
Abs(x) == IF x < 0 THEN -x ELSE x

MaxOf(a, b) == IF a > b THEN a ELSE b

MinOf(a, b) == IF a < b THEN a ELSE b

\* (int)sqrt(n)
ISqrt(n) == CHOOSE k \in 0..n : k * k <= n /\ (k + 1) * (k + 1) > n

\* position (1-based) of the first smallest element of a non-empty sequence
MinIndex(a) ==
    CHOOSE i \in 1..Len(a) :
        /\ \A j \in 1..Len(a) : a[i] <= a[j]
        /\ \A j \in 1..(i - 1) : a[j] > a[i]

RECURSIVE SortAscending(_)
\* List::sort: ascending order
SortAscending(a) ==
    IF a = << >> THEN << >>
    ELSE LET i == MinIndex(a)
         IN <<a[i]>> \o SortAscending(SubSeq(a, 1, i - 1) \o SubSeq(a, i + 1, Len(a)))

\* ph_dist[ph_index] = segment_dist_x[segment_index] + dist_ph_along[ph_index]
PhDist(y) ==
    LET seg == PhotonSegments(y.cnt, 0)
    IN [i \in 1..Len(y.along) |-> At(y.dist_x, seg[i]) + y.along[i]]

RECURSIVE ScanNeighbors(_, _, _, _, _, _, _, _)
\* the while loops over the neighbors to the left (step = -1) and to the
\* right (step = 1) of photon ph_index, from neighbor_index on
ScanNeighbors(ph_dist, h, ph_index, neighbor_index, step, hWX, hWZ, proximities) ==
    IF neighbor_index < 0 \/ neighbor_index >= Len(ph_dist) THEN proximities
    ELSE LET x_dist == IF step < 0
                       THEN At(ph_dist, ph_index) - At(ph_dist, neighbor_index)
                       ELSE At(ph_dist, neighbor_index) - At(ph_dist, ph_index)
             proximity == Abs(At(h, ph_index) - At(h, neighbor_index))
             added == IF x_dist <= hWX /\ proximity <= hWZ
                      THEN Append(proximities, proximity) ELSE proximities
         IN IF x_dist >= hWX + 1 THEN added
            ELSE ScanNeighbors(ph_dist, h, ph_index, neighbor_index + step,
                               step, hWX, hWZ, added)

\* the sorted proximities of the neighbors of photon ph_index
V3Proximities(y, s, ph_index) ==
    LET hWX == s.win_x \div 2
        hWZ == s.win_h \div 2
        ph_dist == PhDist(y)
        left == ScanNeighbors(ph_dist, y.h, ph_index, ph_index - 1, -1,
                              hWX, hWZ, << >>)
        both == ScanNeighbors(ph_dist, y.h, ph_index, ph_index + 1, 1,
                              hWX, hWZ, left)
    IN SortAscending(both)

\* one photon of yapcV3: its knn and its sum of weights
V3Photon(y, s, ph_index) ==
    LET hWZ == s.win_h \div 2
        proximities == V3Proximities(y, s, ph_index)
        knn == MaxOf(ISqrt(Len(proximities)), s.min_knn)
        num_nearest_neighbors == MinOf(knn, Len(proximities))
        weights == [i \in 1..num_nearest_neighbors |-> hWZ - proximities[i]]
    IN [knn |-> knn,
        weight_sum |-> SumRange(weights, 0, num_nearest_neighbors)]

RECURSIVE V3MaxKnn(_, _)
\* int max_knn = settings->min_knn; if(knn > max_knn) max_knn = knn;
V3MaxKnn(photons, max_knn) ==
    IF photons = << >> THEN max_knn
    ELSE V3MaxKnn(Tail(photons), MaxOf(photons[1].knn, max_knn))

V3Score_mut(weight_sum, hWZ, max_knn) ==
    [defined |-> hWZ # 0,
     value |-> IF hWZ = 0 THEN 255
               ELSE MinOf((weight_sum * 255) \div hWZ, 255)]

\* double Wt = ph_weights[i] / (hWZ * max_knn); MIN(Wt * 255, 255)
V3Score(weight_sum, hWZ, max_knn) ==
    IF hWZ * max_knn = 0
    THEN [defined |-> weight_sum # 0, value |-> 255]
    ELSE [defined |-> TRUE,
          value |-> MinOf((weight_sum * 255) \div (hWZ * max_knn), 255)]

RECURSIVE yapcV3(_, _, _, _)
\* the loop over the segments, from segment_index with ph_index photons done
yapcV3(y, s, segment_index, ph_index) ==
    IF segment_index >= Len(y.cnt) THEN << >>
    ELSE LET N == At(y.cnt, segment_index)
             photons == [i \in 1..N |-> V3Photon(y, s, ph_index + i - 1)]
             max_knn == V3MaxKnn(photons, s.min_knn)
         IN [i \in 1..N |-> V3Score(photons[i].weight_sum, s.win_h \div 2,
                                    max_knn)]
               \o yapcV3(y, s, segment_index + 1, ph_index + N)

\* MAX(1, (sqrt((double)N) + 0.5) / 2) converted to int: the largest k with
\* 2k - 0.5 <= sqrt(N), and at least 1
AutoKnn(N) ==
    MaxOf(1, CHOOSE k \in 0..N :
                /\ k = 0 \/ (4 * k - 1) * (4 * k - 1) <= 4 * N
                /\ k = N \/ (4 * k + 3) * (4 * k + 3) > 4 * N)

\* the nearest neighbors kept for photon y among the photons x of
\* [from, ph_b1): nn is nearest_neighbors[0 .. num_nearest_neighbors),
\* smallest and index are smallest_nearest_neighbor(_index); proximities
\* are multiples of 1/hd
RECURSIVE V2Neighbors(_, _, _, _, _, _, _)
V2Neighbors(yd, center, from, ph_b1, knn, w, acc) ==
    IF from >= ph_b1 THEN acc
    ELSE LET delta_x == Abs(At(yd.along, from) - At(yd.along, center))
             delta_h == Abs(At(yd.h, from) - At(yd.h, center))
             proximity == w.hn - w.hd * delta_h
             next ==
               IF from = center \/ 2 * delta_x > w.win_x THEN acc
               ELSE IF Len(acc.nn) < knn
               THEN [nn |-> Append(acc.nn, proximity),
                     smallest |-> IF ~acc.any \/ proximity < acc.smallest
                                  THEN proximity ELSE acc.smallest,
                     index |-> IF ~acc.any \/ proximity < acc.smallest
                               THEN Len(acc.nn) + 1 ELSE acc.index,
                     any |-> TRUE]
               ELSE IF acc.any /\ proximity > acc.smallest
               THEN LET nn == [acc.nn EXCEPT ![acc.index] = proximity]
                        k == MinIndex(nn)
                    IN [nn |-> nn, smallest |-> nn[k],
                        index |-> IF nn[k] < proximity THEN k ELSE acc.index,
                        any |-> TRUE]
               ELSE acc
         IN V2Neighbors(yd, center, from + 1, ph_b1, knn, w, next)

\* score[y] = (uint8_t)((nearest_neighbor_sum / half_win_h) * 0xFF)
V2Score(nn, knn, hn) ==
    LET positive == SelectSeq(nn, LAMBDA p : p > 0)
    IN IF knn * hn = 0
       THEN [defined |-> SumRange(positive, 0, Len(positive)) # 0, value |-> 0]
       ELSE [defined |-> TRUE,
             value |-> (SumRange(positive, 0, Len(positive)) * 255) \div (knn * hn)]

ZeroScore == [defined |-> TRUE, value |-> 0]

\* mutant of V2Indices: the center band starts after the current segment
V2Indices_mut(cnt, segment_index, ix) ==
    [ph_b0 |-> ix.ph_b0 + (IF segment_index > 1
                           THEN At(cnt, segment_index - 2) ELSE 0),
     ph_c0 |-> ix.ph_c0 + At(cnt, segment_index),
     ph_c1 |-> ix.ph_c1 + At(cnt, segment_index),
     ph_b1 |-> ix.ph_b1 + (IF segment_index < Len(cnt) - 1
                           THEN At(cnt, segment_index + 1) ELSE 0)]

\* "Determine Indices": the four running sums at segment_index, from their
\* values ix at the segment before
V2Indices(cnt, segment_index, ix) ==
    [ph_b0 |-> ix.ph_b0 + (IF segment_index > 1
                           THEN At(cnt, segment_index - 2) ELSE 0),
     ph_c0 |-> ix.ph_c0 + (IF segment_index > 0
                           THEN At(cnt, segment_index - 1) ELSE 0),
     ph_c1 |-> ix.ph_c1 + At(cnt, segment_index),
     ph_b1 |-> ix.ph_b1 + (IF segment_index < Len(cnt) - 1
                           THEN At(cnt, segment_index + 1) ELSE 0)]

\* int32_t ph_b0 = 0, ph_b1 = 0, ph_c0 = 0, ph_c1 = 0
V2IndicesInit == [ph_b0 |-> 0, ph_c0 |-> 0, ph_c1 |-> 0, ph_b1 |-> 0]

RECURSIVE V2Bands(_, _, _)
\* the indices that the loop of yapcV2 holds in each segment from
\* segment_index on
V2Bands(cnt, segment_index, ix) ==
    IF segment_index >= Len(cnt) THEN << >>
    ELSE LET n == V2Indices(cnt, segment_index, ix)
         IN <<n>> \o V2Bands(cnt, segment_index + 1, n)

RECURSIVE yapcV2(_, _, _, _, _)
\* the loop over the segments; ix holds ph_b0, ph_c0, ph_c1, ph_b1 as left
\* by the segments before segment_index
yapcV2(y, s, minimum_photon_count, segment_index, ix) ==
    IF segment_index >= Len(y.cnt) THEN << >>
    ELSE
    LET now == V2Indices(y.cnt, segment_index, ix)
        ph_b0 == now.ph_b0
        ph_c0 == now.ph_c0
        ph_c1 == now.ph_c1
        ph_b1 == now.ph_b1
        N == At(y.cnt, segment_index)
        knn == MinOf(IF s.knn # 0 THEN s.knn ELSE AutoKnn(N), MAX_KNN)
        first == SubSeq(y.h, 1, N)
        hs == { y.h[n] : n \in 1..N }
        xs == { y.along[n] : n \in 1..N }
        min_h == CHOOSE v \in hs : \A u \in hs : v <= u
        max_h == CHOOSE v \in hs : \A u \in hs : v >= u
        min_x == CHOOSE v \in xs : \A u \in xs : v <= u
        max_x == CHOOSE v \in xs : \A u \in xs : v >= u
        hspread == max_h - min_h
        xspread == max_x - min_x
        nonzero_bins == Cardinality({ v - min_h : v \in hs })
        \* half_win_h = hn / hd
        w == IF s.win_h # 0
             THEN [hn |-> s.win_h, hd |-> 2, win_x |-> s.win_x]
             ELSE [hn |-> nonzero_bins * knn, hd |-> 2 * N, win_x |-> s.win_x]
        skipped == \/ N <= knn \/ N < minimum_photon_count
                   \/ hspread <= 0 \/ hspread > MAXIMUM_HSPREAD
                   \/ xspread <= 0
        scores ==
            [i \in 1..N |->
                IF skipped THEN ZeroScore
                ELSE V2Score(V2Neighbors(y, ph_c0 + i - 1, ph_b0, ph_b1, knn, w,
                                         [nn |-> << >>, smallest |-> 0,
                                          index |-> 0, any |-> FALSE]).nn,
                             knn, w.hn)]
    IN scores \o yapcV2(y, s, minimum_photon_count, segment_index + 1,
                        now)

\* YapcScore::YapcScore for the versions that score
YapcScore(y, s, minimum_photon_count) ==
    IF s.version = 3 THEN yapcV3(y, s, 0, 0)
    ELSE yapcV2(y, s, minimum_photon_count, 0, V2IndicesInit)

(***************************************************************************)
(* parseResource.  A resource name is a sequence of character codes.       *)
(* str2long follows strtol: it converts the leading decimal digits and     *)
(* fails when there is none.                                               *)
(***************************************************************************)
IsDigit(c) == c >= 48 /\ c <= 57

RECURSIVE strtol(_, _, _)
\* value of the leading digits of str from position i (1-based), acc so far
strtol(str, i, acc) ==
    IF i <= Len(str) /\ IsDigit(str[i])
    THEN strtol(str, i + 1, acc * 10 + (str[i] - 48))
    ELSE [val |-> acc, endptr |-> i]

str2long(str) ==
    LET r == strtol(str, 1, 0)
    IN [ok |-> r.endptr # 1, val |-> r.val]

\* mutant of parseResource: the fields are taken one character early
parseResource_mut(resource) ==
    IF Len(resource) < RESOURCE_NAME_LENGTH
    THEN [ok |-> TRUE, rgt |-> 0, cycle |-> 0, region |-> 0,
          exception |-> NoException]
    ELSE LET rgt == str2long(SubSeq(resource, 21, 24))
             cycle == str2long(SubSeq(resource, 25, 26))
             region == str2long(SubSeq(resource, 27, 28))
         IN [ok |-> rgt.ok /\ cycle.ok /\ region.ok,
             rgt |-> rgt.val, cycle |-> cycle.val, region |-> region.val,
             exception |-> ParseFailure(ParseRgtText, resource, << >>)]

\* mutant of parseResource: a short name is treated as a parse failure
parseResource_short(resource) ==
    LET rgt == str2long(SubSeq(resource, 22, 25))
        cycle == str2long(SubSeq(resource, 26, 27))
        region == str2long(SubSeq(resource, 28, 29))
    IN IF Len(resource) < RESOURCE_NAME_LENGTH
       THEN [ok |-> FALSE, rgt |-> 0, cycle |-> 0, region |-> 0,
             exception |-> ParseFailure(ParseRgtText, resource, << >>)]
       ELSE [ok |-> rgt.ok /\ cycle.ok /\ region.ok,
             rgt |-> rgt.val, cycle |-> cycle.val, region |-> region.val,
             exception |-> ParseFailure(ParseRgtText, resource, << >>)]

parseResource(resource) ==
    IF Len(resource) < RESOURCE_NAME_LENGTH
    THEN [ok |-> TRUE, rgt |-> 0, cycle |-> 0, region |-> 0,
          exception |-> NoException]
    ELSE LET rgt_str == SubSeq(resource, 22, 25)
             cycle_str == SubSeq(resource, 26, 27)
             region_str == SubSeq(resource, 28, 29)
             rgt == str2long(rgt_str)
             cycle == str2long(cycle_str)
             region == str2long(region_str)
         IN [ok |-> rgt.ok /\ cycle.ok /\ region.ok,
             rgt |-> rgt.val, cycle |-> cycle.val, region |-> region.val,
             exception |->
                IF ~rgt.ok THEN ParseFailure(ParseRgtText, resource, rgt_str)
                ELSE IF ~cycle.ok
                THEN ParseFailure(ParseCycleText, resource, cycle_str)
                ELSE IF ~region.ok
                THEN ParseFailure(ParseRegionText, resource, region_str)
                ELSE NoException]

\* "ATL03_20181019065445_03150111_005_01.h5"
GoodResource ==
    <<65, 84, 76, 48, 51, 95, 50, 48, 49, 56, 49, 48, 49, 57, 48, 54, 53, 52, 52, 53, 95, 48, 51, 49, 53, 48, 49, 49, 49, 95, 48, 48, 53, 95, 48, 49, 46, 104, 53>>

\* the characters the generated names take at positions 21-28: "0", "7",
\* "9" and "x"
NameChars == {48, 55, 57, 120}

\* GoodResource with the eight characters of its rgt, cycle and region
\* fields replaced
WithFields(fields) ==
    SubSeq(GoodResource, 1, 21) \o fields
        \o SubSeq(GoodResource, 30, Len(GoodResource))

\* names with every combination of NameChars in the rgt field, resp. in
\* the cycle and region fields; names cut before and at 29 characters
ParseResources ==
    { WithFields(f \o <<48, 49, 49, 49>>) : f \in [1..4 -> NameChars] }
      \cup { WithFields(<<48, 51, 49, 53>> \o f) : f \in [1..4 -> NameChars] }
      \cup { SubSeq(GoodResource, 1, n) :
                n \in (RESOURCE_NAME_LENGTH - 2)..RESOURCE_NAME_LENGTH }

\* "ATL03.h5": shorter than RESOURCE_NAME_LENGTH
ShortResource == <<65, 84, 76, 48, 51, 46, 104, 53>>

\* a name longer than the exception text: GoodResource followed by
\* MAX_EXCEPTION_TEXT_SIZE times "a"
LongResource == GoodResource \o [i \in 1..MAX_EXCEPTION_TEXT_SIZE |-> 97]

\* "ATL03_20181019065445_x3150111_005_01.h5"
BadResource ==
    <<65, 84, 76, 48, 51, 95, 50, 48, 49, 56, 49, 48, 49, 57, 48, 54, 53, 52, 52, 53, 95, 120, 51, 49, 53, 48, 49, 49, 49, 95, 48, 48, 53, 95, 48, 49, 46, 104, 53>>

(***************************************************************************)
(* State                                                                   *)
(***************************************************************************)
VARIABLES
    parms,        \* Icesat2Parms and the constructor's send_terminator
    resource,     \* the resource name
    data,         \* the granule: one beam dataset per (track, pair)
    ctor,         \* position of the constructor
    threadCount,  \* Atl03Reader::threadCount
    numComplete,  \* Atl03Reader::numComplete
    active,       \* Atl03Reader::active
    stats,        \* Atl03Reader::stats
    outQ,         \* messages accepted by the output queue, in order
    signals,      \* number of calls of signalComplete
    wk,           \* the worker threads, one per beam
    lua,          \* the caller of the statistics query (luaStats)
    yapc,         \* a YapcScore object: its inputs and its score array
    curl          \* a call of CurlLib::postAsRecord: its parser, heap and queue

vars == <<parms, resource, data, ctor, threadCount, numComplete, active,
          stats, outQ, signals, wk, lua, yapc, curl>>

inputs == <<parms, resource, data>>

Beams == (1..NUM_TRACKS) \X (0..(NUM_PAIR_TRACKS - 1))

NoBeam == <<0, 0>>

\* the order in which the constructor's loops visit the beams
BeamIndex(b) == (b[1] - 1) * NUM_PAIR_TRACKS + b[2] + 1

BeamAt(i) == CHOOSE b \in Beams : BeamIndex(b) = i

NumBeams == NUM_TRACKS * NUM_PAIR_TRACKS

Selected(p, b) == p.track = ALL_TRACKS \/ b[1] = p.track

\* first selected beam at or after position i (NumBeams + 1 if none)
RECURSIVE NextSelected(_, _)
NextSelected(p, i) ==
    IF i > NumBeams THEN NumBeams + 1
    ELSE IF Selected(p, BeamAt(i)) THEN i
    ELSE NextSelected(p, i + 1)

ZeroStats ==
    [segments_read |-> 0, extents_filtered |-> 0, extents_sent |-> 0,
     extents_dropped |-> 0, extents_retried |-> 0]

AddStats(a, b) ==
    [segments_read |-> a.segments_read + b.segments_read,
     extents_filtered |-> a.extents_filtered + b.extents_filtered,
     extents_sent |-> a.extents_sent + b.extents_sent,
     extents_dropped |-> a.extents_dropped + b.extents_dropped,
     extents_retried |-> a.extents_retried + b.extents_retried]

(***************************************************************************)
(* Messages of the output queue.  Every message carries the beam of the    *)
(* thread that posted it (NoBeam for the constructor); the field is not    *)
(* part of the record, it identifies the poster in the properties.         *)
(***************************************************************************)
Terminator(b) ==
    [type |-> "terminator", beam |-> b, code |-> "", level |-> "",
     text |-> << >>,
     extent_counter |-> 0, valid |-> FALSE, segment_distance |-> 0,
     background_rate |-> [num |-> 0, den |-> 1], photons |-> << >>]

ExceptionRecord(b, code, level, text) ==
    [type |-> "exceptrec", beam |-> b, code |-> code, level |-> level,
     text |-> text,
     extent_counter |-> 0, valid |-> FALSE, segment_distance |-> 0,
     background_rate |-> [num |-> 0, den |-> 1], photons |-> << >>]

\* generateExtentRecord; the extent id packs (rgt, cycle, region, track,
\* pair, extent_counter), of which the record keeps beam and counter
ExtentRecord(b, extent_counter, st, extent_photons, background_rate) ==
    [type |-> "atl03rec", beam |-> b, code |-> "", level |-> "",
     text |-> << >>,
     extent_counter |-> extent_counter, valid |-> st.extent_valid,
     segment_distance |-> st.seg_distance,
     background_rate |-> background_rate, photons |-> extent_photons]

\* mutant of StatusMessage: the resource is left out of the message
StatusMessage_mut(what, res) == what

\* the "%s: (%s)" of e.what() and the resource that the catch blocks pass
\* to generateExceptionStatus
StatusMessage(what, res) == what \o <<58, 32, 40>> \o res \o <<41>>

\* vsnprintf(error_buf, MAX_EXCEPTION_TEXT_SIZE - 1, errmsg, args): the
\* buffer keeps at most MAX_EXCEPTION_TEXT_SIZE - 2 characters of the message
ExceptionText(errmsg) ==
    IF Len(errmsg) > MAX_EXCEPTION_TEXT_SIZE - 2
    THEN SubSeq(errmsg, 1, MAX_EXCEPTION_TEXT_SIZE - 2)
    ELSE errmsg

\* the record built by LuaEndpoint::generateExceptionStatus
ExceptionStatus(b, e, res) ==
    ExceptionRecord(b, e.code, e.level, ExceptionText(StatusMessage(e.what, res)))

\* record.post(outq, 0, active): the record reaches the queue unless the
\* queue refuses it or active is already false
ExceptionDelivery == IF active THEN BOOLEAN ELSE {FALSE}

\* LuaEndpoint::generateExceptionStatus(code, level, outq, active, ...)
generateExceptionStatus(q, b, e, res, delivered) ==
    IF delivered THEN Append(q, ExceptionStatus(b, e, res)) ELSE q

NoRegion == Region(<< >>, << >>, "none")

NoAtl03 ==
    [segment_dist_x |-> << >>, segment_id |-> << >>,
     segment_delta_time |-> << >>, bckgrd_delta_time |-> << >>,
     bckgrd_rate |-> << >>, solar_elevation |-> << >>, ph |-> << >>]

NoState == TrackStateInit([segment_dist_x |-> <<0>>])

IdleLua ==
    [pc |-> "idle", i |-> 0, table |-> ZeroStats, with_clear |-> FALSE,
     queries |-> 0, reported |-> ZeroStats]

IdleWorker ==
    [pc |-> "idle", region |-> NoRegion, atl03 |-> NoAtl03,
     atl08 |-> ClassifyInit, anc |-> NoAncillary, state |-> NoState,
     extent_counter |-> 0,
     local_stats |-> ZeroStats, pending |-> << >>, thrown |-> << >>,
     exceptions |-> << >>, tested |-> << >>,
     attempts |-> [posted |-> 0, error |-> 0, timeout |-> 0], calls |-> 0,
     extents |-> << >>, walks |-> << >>]

(***************************************************************************)
(* Constructor                                                             *)
(***************************************************************************)
\* if(e.code() == RTE_TIMEOUT) ... RTE_TIMEOUT else RTE_RESOURCE_DOES_NOT_EXIST
ReportedCode(code) ==
    IF code = "RTE_TIMEOUT" THEN "RTE_TIMEOUT"
    ELSE "RTE_RESOURCE_DOES_NOT_EXIST"

\* the catch block of the constructor: exception record, terminator,
\* signalComplete.  No worker exists when it runs.
ConstructionFailure(e, delivered) ==
    LET q == generateExceptionStatus(outQ, NoBeam,
                                     [e EXCEPT !.code = ReportedCode(e.code)],
                                     resource, delivered)
    IN /\ outQ' = IF parms.send_terminator THEN Append(q, Terminator(NoBeam))
                  ELSE q
       /\ signals' = signals + 1
       /\ ctor' = [ctor EXCEPT !.pc = "failed"]

\* parseResource(resource, start_rgt, start_cycle, start_region)
CtorParse ==
    /\ ctor.pc = "parse"
    /\ IF parseResource(resource).ok
       THEN /\ ctor' = [ctor EXCEPT
                           !.pc = "spawn", !.i = NextSelected(parms, 1),
                           !.start_rgt = parseResource(resource).rgt,
                           !.start_cycle = parseResource(resource).cycle,
                           !.start_region = parseResource(resource).region]
            /\ UNCHANGED <<outQ, signals>>
       ELSE \E delivered \in ExceptionDelivery :
                ConstructionFailure(parseResource(resource).exception, delivered)
    /\ UNCHANGED <<inputs, lua, yapc, curl, threadCount, numComplete, active, stats, wk>>

CtorAdvance(c) ==
    IF c.spawned /\ c.counted
    THEN [c EXCEPT !.i = NextSelected(parms, c.i + 1),
                   !.spawned = FALSE, !.counted = FALSE]
    ELSE c

\* readerPid[threadCount++] = new Thread(subsettingThread, info):
\* the thread starts running ...
CtorSpawnThread ==
    /\ ctor.pc = "spawn" /\ ctor.i <= NumBeams /\ ~ctor.spawned
    /\ wk' = [wk EXCEPT ![BeamAt(ctor.i)].pc = "setup"]
    /\ ctor' = CtorAdvance([ctor EXCEPT !.spawned = TRUE])
    /\ UNCHANGED <<inputs, lua, yapc, curl, threadCount, numComplete, active, stats, outQ, signals>>

\* ... and threadCount is incremented, in the order the build chooses;
\* threadCount is written without holding threadMut
CtorCountThread ==
    /\ ctor.pc = "spawn" /\ ctor.i <= NumBeams /\ ~ctor.counted
    /\ threadCount' = threadCount + 1
    /\ ctor' = CtorAdvance([ctor EXCEPT !.counted = TRUE])
    /\ UNCHANGED <<inputs, lua, yapc, curl, numComplete, active, stats, outQ, signals, wk>>

\* if(threadCount == 0) throw ...; otherwise construction is complete
CtorCheck ==
    /\ ctor.pc = "spawn" /\ ctor.i > NumBeams
    /\ IF threadCount = 0
       THEN \E delivered \in ExceptionDelivery :
                ConstructionFailure(NoReaderThreads(parms.track), delivered)
       ELSE /\ ctor' = [ctor EXCEPT !.pc = "done"]
            /\ UNCHANGED <<outQ, signals>>
    /\ UNCHANGED <<inputs, lua, yapc, curl, threadCount, numComplete, active, stats, wk>>

\* ~Atl03Reader: active = false (the joins that follow only wait)
Destroy ==
    /\ ctor.pc \in {"done", "failed"}
    /\ active
    /\ active' = FALSE
    /\ UNCHANGED <<inputs, lua, yapc, curl, ctor, threadCount, numComplete, stats, outQ, signals, wk>>

(***************************************************************************)
(* Worker thread (subsettingThread) of beam b                              *)
(***************************************************************************)
\* mutant of NextExtentCounter: the counter is not bumped
NextExtentCounter_mut(extent_counter) == extent_counter

\* extent_counter++ at the end of an iteration
NextExtentCounter(extent_counter) == extent_counter + 1

\* the worker leaves its try block through an exception: the catch block
\* generates one exception record
WorkerThrows(b, e, tested, delivered) ==
    /\ outQ' = generateExceptionStatus(outQ, b, e, resource, delivered)
    /\ wk' = [wk EXCEPT ![b].pc = "complete",
                        ![b].tested = @ \o tested,
                        ![b].thrown = Append(@, e),
                        ![b].exceptions = Append(@, ExceptionStatus(b, e, resource))]

\* Atl08Class, Region, Atl03Data, YapcScore, classify, TrackState:
\* io is the outcome of the dataset reads
WorkerSetup(b) ==
    /\ wk[b].pc = "setup"
    /\ \E io \in {"ok", "timeout"}, delivered \in ExceptionDelivery,
          beyond \in BeyondValues(parms, SumRange(data[b].cnt, 0,
                                                   Len(data[b].cnt))) :
        LET d == data[b]
            region == Region(d.cnt, d.incl, parms.filter)
            atl03 == Atl03Data(d, region)
            atl08 == IF parms.stage_atl08
                     THEN Atl08Class(parms, d, atl03, region, beyond)
                     ELSE ClassifyInit
            anc == AncillaryData(parms, d, region, atl08)
        IN IF io = "timeout"
           THEN WorkerThrows(b, ReadTimeout, << >>, delivered)
           ELSE IF region.empty
           THEN WorkerThrows(b, EmptySubsetException, << >>, delivered)
           ELSE IF parms.stage_yapc /\ parms.yapc_version \notin {1, 2, 3}
           THEN WorkerThrows(b, InvalidYapcVersion(parms.yapc_version),
                             << >>, delivered)
           ELSE /\ wk' = [wk EXCEPT
                            ![b].pc = "loop",
                            ![b].region = region,
                            ![b].atl03 = atl03,
                            ![b].atl08 = atl08,
                            ![b].anc = anc,
                            ![b].state = TrackStateInit(atl03),
                            ![b].local_stats.segments_read =
                                    Len(region.segment_ph_cnt)]
                /\ outQ' = outQ
    /\ UNCHANGED <<inputs, lua, yapc, curl, ctor, threadCount, numComplete, active, stats, signals>>

\* mutant of LoopContinues: the loop does not test the active flag
LoopContinues_mut(act, st) == ~st.track_complete

\* while(reader->active && !state.track_complete)
\* mutant of LoopContinues: the loop goes on after the last photon
LoopContinues_active(act, st) == act

LoopContinues(act, st) == act /\ ~st.track_complete

\* the loop over extents is left
WorkerLoopExit(b) ==
    /\ wk[b].pc = "loop"
    /\ ~LoopContinues(active, wk[b].state)
    /\ wk' = [wk EXCEPT ![b].pc = "complete"]
    /\ UNCHANGED <<inputs, lua, yapc, curl, ctor, threadCount, numComplete, active, stats, outQ, signals>>

\* one iteration of the loop over extents, up to the post of its record;
\* tested, walks and extents log the photons the iterations evaluated, the
\* photons they visited and the photon lists they built
\* (generateExtentRecord builds the record from data already validated by
\* the walk; the catch block around it is not reached)
WorkerExtent(b) ==
    /\ wk[b].pc = "loop"
    /\ LoopContinues(active, wk[b].state)
    /\ wk[b].extent_counter < MaxExtents
    /\ LET w == wk[b]
           e == Extent(parms, w.region, w.atl03, w.atl08.classification,
                       w.state)
           bg == calculateBackground(e.state, w.atl03)
       IN IF e.thrown
          THEN \E delivered \in ExceptionDelivery :
                  WorkerThrows(b, e.exception, e.tested, delivered)
          ELSE IF e.state.extent_valid \/ parms.pass_invalid
          THEN /\ wk' = [wk EXCEPT
                           ![b].state = [e.state EXCEPT
                                           !.bckgrd_in = bg.bckgrd_in],
                           ![b].tested = @ \o e.tested,
                           ![b].extents = Append(@, e.extent_photons),
                           ![b].walks = Append(@, e.visited),
                           ![b].pc = "post",
                           ![b].pending =
                              <<ExtentMessage(b,
                                  RecordList(parms, b, w.extent_counter,
                                      w.anc, e.extent_photons,
                                      ExtentRecord(b, w.extent_counter,
                                                   e.state, e.extent_photons,
                                                   bg.background_rate)))>>]
               /\ outQ' = outQ
          ELSE /\ wk' = [wk EXCEPT
                           ![b].state = e.state,
                           ![b].tested = @ \o e.tested,
                           ![b].extents = Append(@, e.extent_photons),
                           ![b].walks = Append(@, e.visited),
                           ![b].local_stats.extents_filtered = @ + 1,
                           ![b].extent_counter = NextExtentCounter(@)]
               /\ outQ' = outQ
    /\ UNCHANGED <<inputs, lua, yapc, curl, ctor, threadCount, numComplete, active, stats, signals>>

PostOutcomes(w) ==
    IF ~active THEN {"inactive"}
    ELSE {"posted", "error"} \cup
         (IF w.local_stats.extents_retried < MaxRetries THEN {"timeout"} ELSE {})

\* mutant of SentIncrement: everything but a queue error counts as sent
SentIncrement_mut(post_status) == IF post_status # "error" THEN 1 ELSE 0

\* if(post_status > 0) local_stats.extents_sent++
SentIncrement(post_status) == IF post_status = "posted" THEN 1 ELSE 0

\* mutant of DroppedIncrement: every post also counts as dropped
DroppedIncrement_mut(post_status) == 1

DroppedIncrement(post_status) == IF post_status = "posted" THEN 0 ELSE 1

\* postRecord: one pass of while(active && postCopy(...) == STATE_TIMEOUT),
\* then, unless the post timed out, the statistics update and
\* extent_counter++.  attempts counts what the queue returned to the
\* postCopy calls, calls counts the postRecord calls that returned.
WorkerPost(b) ==
    /\ wk[b].pc = "post"
    /\ \E post_status \in PostOutcomes(wk[b]) :
        IF post_status = "timeout"
        THEN /\ wk' = [wk EXCEPT ![b].local_stats.extents_retried = @ + 1,
                                  ![b].attempts.timeout = @ + 1]
             /\ outQ' = outQ
        ELSE /\ wk' = [wk EXCEPT
                         ![b].pc = "loop",
                         ![b].attempts.posted =
                                IF post_status = "posted" THEN @ + 1 ELSE @,
                         ![b].attempts.error =
                                IF post_status = "error" THEN @ + 1 ELSE @,
                         ![b].calls = @ + 1,
                         ![b].pending = << >>,
                         ![b].local_stats.extents_sent =
                                @ + SentIncrement(post_status),
                         ![b].local_stats.extents_dropped =
                                @ + DroppedIncrement(post_status),
                         ![b].extent_counter = NextExtentCounter(@)]
             /\ outQ' = IF post_status = "posted"
                        THEN Append(outQ, wk[b].pending[1]) ELSE outQ
    /\ UNCHANGED <<inputs, lua, yapc, curl, ctor, threadCount, numComplete, active, stats, signals>>

LastWorker(complete, count) == complete = count

\* the block under threadMut: fold the statistics, count the completion,
\* post the terminator and signal completion when the last worker is done
WorkerComplete(b) ==
    /\ wk[b].pc = "complete"
    /\ stats' = AddStats(stats, wk[b].local_stats)
    /\ numComplete' = numComplete + 1
    /\ IF LastWorker(numComplete + 1, threadCount)
       THEN /\ outQ' = IF parms.send_terminator
                       THEN Append(outQ, Terminator(b)) ELSE outQ
            /\ signals' = signals + 1
       ELSE UNCHANGED <<outQ, signals>>
    /\ wk' = [wk EXCEPT ![b].pc = "done"]
    /\ UNCHANGED <<inputs, lua, yapc, curl, ctor, threadCount, active>>

Worker(b) ==
    \/ WorkerSetup(b)
    \/ WorkerLoopExit(b)
    \/ WorkerExtent(b)
    \/ WorkerPost(b)
    \/ WorkerComplete(b)

(***************************************************************************)
(* luaStats: the statistics query, called on the constructed reader from   *)
(* the Lua thread.  It reads the five fields of Atl03Reader::stats into    *)
(* the returned table and then clears the struct, without taking           *)
(* threadMut.  lua.reported accumulates the tables returned by the         *)
(* queries that clear.                                                     *)
(***************************************************************************)
StatsFields ==
    <<"segments_read", "extents_filtered", "extents_sent", "extents_dropped",
      "extents_retried">>

\* bool with_clear = getLuaBoolean(L, 2, true, false); lua_newtable(L)
LuaStatsCall ==
    /\ lua.pc = "idle"
    /\ ctor.pc = "done" /\ active
    /\ lua.queries < MaxQueries
    /\ \E with_clear \in BOOLEAN :
          lua' = [lua EXCEPT !.pc = "read", !.i = 1, !.table = ZeroStats,
                             !.with_clear = with_clear, !.queries = @ + 1]
    /\ UNCHANGED <<inputs, yapc, curl, ctor, threadCount, numComplete, active, stats,
                   outQ, signals, wk>>

\* LuaEngine::setAttrInt(L, ..., lua_obj->stats.<field>), one field a step
LuaStatsRead ==
    /\ lua.pc = "read"
    /\ LET f == StatsFields[lua.i]
           table == [lua.table EXCEPT ![f] = stats[f]]
           last == lua.i = Len(StatsFields)
       IN lua' = [lua EXCEPT
                    !.table = table,
                    !.i = IF last THEN 0 ELSE @ + 1,
                    !.pc = IF ~last THEN "read"
                           ELSE IF lua.with_clear THEN "clear" ELSE "idle"]
    /\ UNCHANGED <<inputs, yapc, curl, ctor, threadCount, numComplete, active, stats,
                   outQ, signals, wk>>

\* if(with_clear) memset(&lua_obj->stats, 0, sizeof(lua_obj->stats))
LuaStatsClear ==
    /\ lua.pc = "clear"
    /\ stats' = ZeroStats
    /\ lua' = [lua EXCEPT !.pc = "idle",
                          !.reported = AddStats(@, lua.table)]
    /\ UNCHANGED <<inputs, yapc, curl, ctor, threadCount, numComplete, active,
                   outQ, signals, wk>>

luaStats == LuaStatsCall \/ LuaStatsRead \/ LuaStatsClear

(***************************************************************************)
(* The construction of a YapcScore object                                  *)
(***************************************************************************)
IdleYapc == [pc |-> "idle", y |-> << >>, s |-> << >>, score |-> << >>,
             converted |-> << >>, bands |-> << >>]

\* YapcScore yapc(info, region, atl03).  The conversion of a double that is
\* not a number to uint8_t is undefined: every photon with such a value gets
\* the value the build produces for it.
YapcScoreRun ==
    /\ yapc.pc = "input"
    /\ LET score == YapcScore(yapc.y, yapc.s, parms.minimum_photon_count)
       IN \E nan \in {0, 255} :
            yapc' = [yapc EXCEPT
                       !.pc = "scored",
                       !.score = score,
                       !.bands = IF yapc.s.version = 2
                                 THEN V2Bands(yapc.y.cnt, 0, V2IndicesInit)
                                 ELSE << >>,
                       !.converted = [i \in 1..Len(score) |->
                                        IF score[i].defined
                                        THEN score[i].value % 256 ELSE nan]]
    /\ UNCHANGED <<inputs, lua, curl, ctor, threadCount, numComplete, active,
                   stats, outQ, signals, wk>>

(***************************************************************************)
(* CurlLib::postAsRecord and its write callback CurlLib::postRecords       *)
(***************************************************************************)
\* OsApi::swaps and OsApi::swapl of a header field: the stream carries the
\* fields of RecordObject::rec_hdr_t most significant byte first
swaps(hdr_buf, at) == hdr_buf[at + 1] * 256 + hdr_buf[at + 2]

swapl(hdr_buf, at) == swaps(hdr_buf, at) * 65536 + swaps(hdr_buf, at + 2)

\* the parser_t of postAsRecord; rec_buf is an index into the heap, 0 is NULL
NewParser ==
    [hdr_buf |-> [i \in 1..RECOBJ_HDR_SIZE |-> 0], hdr_index |-> 0,
     rec_size |-> 0, rec_index |-> 0, rec_buf |-> 0]

IdleCurl ==
    [pc |-> "idle", records |-> << >>, stream |-> << >>, pos |-> 0,
     parser |-> NewParser, heap |-> << >>, outq |-> << >>,
     has_active |-> FALSE, active |-> TRUE, with_terminator |-> FALSE,
     ret |-> 0, split |-> FALSE, http_code |-> "none"]

\* new uint8_t [rec_size] followed by the memcpy of the header
NewBlock(hdr_buf) == [owner |-> "parser", frees |-> 0, bytes |-> hdr_buf]

\* delete [] of a block of the heap
DeleteBlock(block) == [block EXCEPT !.frees = @ + 1]

\* mutant of HeaderCopy: the bytes are stored from the start of hdr_buf
HeaderCopy_mut(hdr_buf, hdr_index, input_data, input_index, n) == [i \in 1..RECOBJ_HDR_SIZE |-> IF i <= n THEN input_data[input_index + i] ELSE hdr_buf[i]]

\* for(i < hdr_bytes_to_process) hdr_buf[hdr_index++] = input_data[input_index++]
HeaderCopy(hdr_buf, hdr_index, input_data, input_index, n) == [i \in 1..RECOBJ_HDR_SIZE |-> IF hdr_index < i /\ i <= hdr_index + n THEN input_data[input_index + (i - hdr_index)] ELSE hdr_buf[i]]

\* while((!active || *active) && post_status == STATE_TIMEOUT): the states
\* the loop can end in.  postRef takes the buffer when it succeeds; a
\* negative status deletes the buffer; on timeouts the loop goes round until
\* a post ends otherwise or another thread clears *active.
PostLoop(c) ==
    IF c.has_active /\ ~c.active THEN {c}
    ELSE LET rec_buf == c.parser.rec_buf
         IN {[c EXCEPT !.outq = Append(@, c.heap[rec_buf].bytes),
                       !.heap[rec_buf].owner = "queue"],
             [c EXCEPT !.heap[rec_buf] = DeleteBlock(@)]}
            \cup (IF c.has_active THEN {[c EXCEPT !.active = FALSE]} ELSE {})

\* the while(bytes_to_process > 0) loop of postRecords: the states the call
\* can return in
RECURSIVE postRecordsLoop(_, _, _, _)
postRecordsLoop(c, input_data, input_index, bytes_to_process) ==
    IF bytes_to_process <= 0 THEN {[c EXCEPT !.ret = Len(input_data)]}
    ELSE IF c.parser.rec_size = 0
    THEN LET hdr_bytes_needed == RECOBJ_HDR_SIZE - c.parser.hdr_index
             hdr_bytes_to_process == MinOf(hdr_bytes_needed, bytes_to_process)
             hdr_buf == HeaderCopy(c.parser.hdr_buf, c.parser.hdr_index,
                                   input_data, input_index, hdr_bytes_to_process)
             hdr_index == c.parser.hdr_index + hdr_bytes_to_process
             version == swaps(hdr_buf, 0)
             type_size == swaps(hdr_buf, 2)
             data_size == swapl(hdr_buf, 4)
             copied == [c EXCEPT !.parser.hdr_buf = hdr_buf,
                                 !.parser.hdr_index = hdr_index]
         IN IF hdr_index # RECOBJ_HDR_SIZE
            THEN postRecordsLoop(copied, input_data,
                                 input_index + hdr_bytes_to_process,
                                 bytes_to_process - hdr_bytes_to_process)
            ELSE IF version # RECORD_FORMAT_VERSION
            THEN {[copied EXCEPT !.ret = 0]}
            ELSE postRecordsLoop(
                    [copied EXCEPT
                       !.parser.rec_size = RECOBJ_HDR_SIZE + type_size + data_size,
                       !.parser.rec_buf = Len(c.heap) + 1,
                       !.heap = Append(@, NewBlock(hdr_buf)),
                       !.parser.rec_index = RECOBJ_HDR_SIZE,
                       !.parser.hdr_index = 0],
                    input_data, input_index + hdr_bytes_to_process,
                    bytes_to_process - hdr_bytes_to_process)
    ELSE LET rec_bytes_needed == c.parser.rec_size - c.parser.rec_index
             rec_bytes_to_process == MinOf(rec_bytes_needed, bytes_to_process)
             filled == [c EXCEPT
                          !.heap[c.parser.rec_buf].bytes =
                              @ \o SubSeq(input_data, input_index + 1,
                                          input_index + rec_bytes_to_process),
                          !.parser.rec_index = @ + rec_bytes_to_process]
         IN IF filled.parser.rec_index # filled.parser.rec_size
            THEN postRecordsLoop(filled, input_data,
                                 input_index + rec_bytes_to_process,
                                 bytes_to_process - rec_bytes_to_process)
            ELSE UNION { postRecordsLoop(
                            [d EXCEPT !.parser.rec_index = 0,
                                      !.parser.rec_size = 0],
                            input_data, input_index + rec_bytes_to_process,
                            bytes_to_process - rec_bytes_to_process) :
                         d \in PostLoop(filled) }

\* the parser is between two records
BetweenRecords(p) == p.hdr_index = 0 /\ p.rec_index = 0 /\ p.rec_size = 0

\* CurlLib::postRecords(buffer, size, nmemb, userp): the transfer hands the
\* next nmemb bytes of the response to the callback; a return value other
\* than nmemb ends the transfer
postRecords ==
    /\ curl.pc = "perform"
    /\ \E nmemb \in 1..(Len(curl.stream) - curl.pos) :
         \E c \in postRecordsLoop(curl, SubSeq(curl.stream, curl.pos + 1,
                                               curl.pos + nmemb), 0, nmemb) :
            curl' = [c EXCEPT
                       !.pos = @ + nmemb,
                       !.split = @ \/ (c.ret = nmemb /\ ~BetweenRecords(c.parser)),
                       !.pc = IF c.ret = nmemb THEN "perform" ELSE "aborted"]
    /\ UNCHANGED <<inputs, ctor, threadCount, numComplete, active, stats, outQ,
                   signals, wk, lua, yapc>>

\* the owner of the flag that postAsRecord is given clears it
ActiveCleared ==
    /\ curl.pc = "perform"
    /\ curl.has_active /\ curl.active
    /\ curl' = [curl EXCEPT !.active = FALSE]
    /\ UNCHANGED <<inputs, ctor, threadCount, numComplete, active, stats, outQ,
                   signals, wk, lua, yapc>>

\* postAsRecord after curl_easy_perform: the transfer has ended, with the
\* whole response delivered, stopped by the callback, or broken off at any
\* byte.  The left-over response is freed and the stream is terminated.
postAsRecord ==
    /\ curl.pc \in {"perform", "aborted"}
    /\ curl' = [curl EXCEPT
                  !.pc = "returned",
                  !.http_code = IF curl.pc = "perform"
                                   /\ curl.pos = Len(curl.stream)
                                THEN "response_code"
                                ELSE "Service_Unavailable",
                  !.heap = IF curl.parser.rec_size > 0
                           THEN [@ EXCEPT ![curl.parser.rec_buf] = DeleteBlock(@)]
                           ELSE @,
                  !.outq = IF curl.with_terminator THEN Append(@, << >>) ELSE @]
    /\ UNCHANGED <<inputs, ctor, threadCount, numComplete, active, stats, outQ,
                   signals, wk, lua, yapc>>

(***************************************************************************)
(* Inputs                                                                  *)
(***************************************************************************)
Table(dom, accepted) == [i \in dom |-> i \in accepted]

CnfIndexes == 0..(CNF_SURFACE_HIGH + SIGNAL_CONF_OFFSET)

QualityIndexes == QUALITY_NOMINAL..QUALITY_POSSIBLE_TEP

ClassIndexes == 0..(NUM_ATL08_CLASSES - 1)

\* everything accepted, no stage, one extent per 20 m
BaseParms ==
    [track |-> 1, send_terminator |-> TRUE, filter |-> "none",
     extent_length |-> 20, extent_step |-> 20, dist_in_seg |-> FALSE,
     atl03_cnf |-> Table(CnfIndexes, CnfIndexes),
     quality_ph |-> Table(QualityIndexes, QualityIndexes),
     atl08_class |-> Table(ClassIndexes, ClassIndexes),
     stage_atl08 |-> FALSE, stage_yapc |-> FALSE,
     yapc_version |-> 3, yapc_score |-> 0,
     minimum_photon_count |-> 1, along_track_spread |-> 0,
     pass_invalid |-> FALSE,
     atl03_geo_fields |-> << >>, atl03_ph_fields |-> << >>,
     atl08_fields |-> << >>,
     stage_phoreal |-> FALSE, above_classifier |-> FALSE]

\* only high-confidence, nominal-quality, ground/canopy photons with a
\* YAPC score of at least 100
StrictParms ==
    [BaseParms EXCEPT
        !.atl03_cnf = Table(CnfIndexes, {CNF_SURFACE_HIGH + SIGNAL_CONF_OFFSET}),
        !.quality_ph = Table(QualityIndexes, {QUALITY_NOMINAL}),
        !.atl08_class = Table(ClassIndexes, {1, 2}),
        !.stage_atl08 = TRUE, !.stage_yapc = TRUE, !.yapc_score = 100]

ExtentParms ==
    { BaseParms,
      [BaseParms EXCEPT !.extent_length = 40, !.minimum_photon_count = 2,
                        !.along_track_spread = 5],
      [BaseParms EXCEPT !.extent_step = 40, !.pass_invalid = TRUE,
                        !.minimum_photon_count = 2],
      [BaseParms EXCEPT !.extent_step = 5],
      [BaseParms EXCEPT !.extent_step = 0],
      [StrictParms EXCEPT !.extent_length = 40, !.pass_invalid = TRUE],
      [BaseParms EXCEPT !.filter = "raster", !.extent_length = 40],
      [BaseParms EXCEPT !.along_track_spread = 5],
      [StrictParms EXCEPT !.dist_in_seg = TRUE, !.extent_length = 2,
                          !.extent_step = 1],
      [BaseParms EXCEPT !.dist_in_seg = TRUE, !.extent_length = 1,
                        !.extent_step = 2, !.minimum_photon_count = 2] }

\* photons as read from heights/*: a good photon at the start of its
\* segment, a photon further along with a low YAPC score, a noise photon
\* (background confidence, possible afterpulse), a photon with an
\* out-of-range signal confidence
PhotonGood0 == [along |-> 0, cnf |-> 4, quality |-> 0, score |-> 200]

PhotonGood12 == [along |-> 12, cnf |-> 4, quality |-> 0, score |-> 50]

PhotonNoise == [along |-> 6, cnf |-> 0, quality |-> 1, score |-> 200]

PhotonInvalid == [along |-> 3, cnf |-> 5, quality |-> 0, score |-> 200]

\* a background photon whose quality flag is outside the quality table
PhotonBadQuality == [along |-> 3, cnf |-> 0, quality |-> 7, score |-> 200]

PhotonKinds == {PhotonGood0, PhotonGood12, PhotonNoise}

CountValues == 0..2

SegmentSpacings == {5, 20}

FirstSegmentId == 100

FirstSegmentDist == 1000

SeqSum(c) == SumRange(c, 0, Len(c))

\* the segment_ph_cnt arrays of at most segs segments and photons photons
CountArraysUpTo(segs, photons) ==
    { c \in UNION { [1..n -> CountValues] : n \in 1..segs } :
        SeqSum(c) >= 1 /\ SeqSum(c) <= photons }

CountArrays == CountArraysUpTo(MaxSegs, MaxPhotons)

SegmentIds(n) == [i \in 1..n |-> FirstSegmentId + (i - 1)]

\* delta_time of the segments of the beams that have one background sample
SegmentTimes(n) == [i \in 1..n |-> i - 1]

SegmentDists(n, spacing) == [i \in 1..n |-> FirstSegmentDist + spacing * (i - 1)]

\* ATL08 rows: ground (1), canopy (2) and top of canopy (3) photons in the
\* first two segments; the photons of the other segments have no row
DefaultRows ==
    << [seg |-> FirstSegmentId, indx |-> 1, flag |-> 1],
       [seg |-> FirstSegmentId, indx |-> 2, flag |-> 3],
       [seg |-> FirstSegmentId + 1, indx |-> 1, flag |-> 2],
       [seg |-> FirstSegmentId + 1, indx |-> 2, flag |-> 1] >>

\* the datasets of the ancillary fields: element i of dataset f is <<f, i>>
GeoFieldNames == {"geo1", "geo2"}
PhotonFieldNames == {"ph1"}
Atl08FieldNames == {"land1"}

AncDataset(f, n) == [i \in 1..n |-> <<f, i>>]

\* the first ATL03 segments of the ATL08 land segments of every beam
LandSegments == <<FirstSegmentId - 3, FirstSegmentId + 2>>

MakeBeam(cnt, incl, spacing, ph, rows) ==
    [cnt |-> cnt, incl |-> incl,
     dist_x |-> SegmentDists(Len(cnt), spacing),
     seg_id |-> SegmentIds(Len(cnt)),
     delta_time |-> SegmentTimes(Len(cnt)),
     bckgrd_delta_time |-> <<0>>, bckgrd_rate |-> <<0>>,
     ph |-> ph, rows |-> rows,
     anc_geo |-> [f \in GeoFieldNames |-> AncDataset(f, Len(cnt))],
     anc_ph |-> [f \in PhotonFieldNames |-> AncDataset(f, Len(ph))],
     anc_seg |-> [f \in Atl08FieldNames |->
                    AncDataset(f, Len(LandSegments))],
     segment_id_beg |-> LandSegments,
     ph_h |-> [i \in 1..Len(rows) |-> 0],
     solar_elevation |-> [i \in 1..Len(cnt) |-> 90], spot |-> 1]

AllIncluded(n) == [i \in 1..n |-> TRUE]

\* beams of the reader runs: an extent, an empty (filtered) extent and
\* another extent; one extent, then a fatal photon; a beam outside of the
\* polygon
BeamTwoExtents ==
    MakeBeam(<<1, 0, 1, 1>>, <<TRUE, TRUE, TRUE, TRUE>>, 20,
             <<PhotonGood0, PhotonGood0, PhotonGood12>>, << >>)

BeamFatal ==
    MakeBeam(<<1, 1, 1>>, <<TRUE, TRUE, TRUE>>, 20,
             <<PhotonGood0, PhotonInvalid, PhotonGood0>>, << >>)

\* a beam whose second photon has an out-of-range quality flag
BeamBadQuality ==
    MakeBeam(<<1, 1, 1>>, <<TRUE, TRUE, TRUE>>, 20,
             <<PhotonGood0, PhotonBadQuality, PhotonGood0>>, << >>)

BeamOutside ==
    MakeBeam(<<1>>, <<FALSE>>, 20, <<PhotonGood0>>, << >>)

\* a beam that a raster includes in part: the crop runs from the second
\* segment to the last and holds a segment that the raster leaves out
BeamMasked ==
    MakeBeam(<<1, 1, 1, 0, 1>>, <<FALSE, TRUE, FALSE, TRUE, TRUE>>, 5,
             <<PhotonGood0, PhotonGood0, PhotonGood0, PhotonNoise>>, DefaultRows)

\* three segments 5 m apart
BeamClose ==
    MakeBeam(<<0, 1, 2>>, <<TRUE, TRUE, TRUE>>, 5,
             <<PhotonGood0, PhotonGood12, PhotonGood12>>, << >>)

\* the photon arrays of a beam with the counts c
PhotonArrays(c) == [1..SeqSum(c) -> PhotonKinds]

\* beams for the extent state machine: every count array, spacing and
\* pattern of in-range photons within the bounds, and the longer beams of
\* the reader runs
ExtentBeams ==
    UNION { { MakeBeam(c, AllIncluded(Len(c)), sp, ph, DefaultRows) :
                sp \in SegmentSpacings, ph \in PhotonArrays(c) } :
            c \in CountArraysUpTo(MaxExtentSegs, MaxPhotons) }
      \cup {BeamTwoExtents, BeamFatal, BeamClose, BeamBadQuality, BeamMasked}

ReaderBeams == {BeamTwoExtents, BeamFatal, BeamOutside}

\* non-decreasing sequences of n values of S: delta_time grows along a beam
SortedSeqs(S, n) ==
    { s \in [1..n -> S] : \A i \in 1..(n - 1) : s[i] <= s[i + 1] }

\* beams of four segments of one photon each, with the delta_time of the
\* segments and the background samples drawn from small sets
BackgroundBeams ==
    UNION { { [MakeBeam(<<1, 1, 1, 1>>, AllIncluded(4), 20,
                        <<PhotonGood0, PhotonGood0, PhotonGood0, PhotonGood0>>,
                        << >>)
                 EXCEPT !.delta_time = t, !.bckgrd_delta_time = bt,
                        !.bckgrd_rate = br] :
                t \in SortedSeqs({-5, 7, 10, 25}, 4),
                bt \in SortedSeqs({0, 10, 20}, n),
                br \in [1..n -> {100, 200}] } :
            n \in 1..MaxSamples }

BackgroundParms == {BaseParms}

NoTrack == NUM_TRACKS + 1    \* a selector that matches no beam

(***************************************************************************)
(* Specifications                                                          *)
(***************************************************************************)
InitReaderState ==
    /\ ctor = [pc |-> "parse", i |-> 0, spawned |-> FALSE, counted |-> FALSE,
               start_rgt |-> 0, start_cycle |-> 0, start_region |-> 0]
    /\ threadCount = 0
    /\ numComplete = 0
    /\ active = TRUE
    /\ stats = ZeroStats
    /\ outQ = << >>
    /\ signals = 0
    /\ wk = [b \in Beams |-> IdleWorker]
    /\ lua = IdleLua
    /\ yapc = IdleYapc
    /\ curl = IdleCurl

\* The reader: construction over a polygon-filtered granule, the workers of
\* the selected track, destruction at any time after construction.
Init ==
    /\ \E st \in BOOLEAN, tr \in {1, NoTrack} :
          parms = [BaseParms EXCEPT !.send_terminator = st, !.track = tr,
                                    !.filter = "poly"]
    /\ resource \in {GoodResource, BadResource, ShortResource, LongResource}
    /\ \E l, r \in ReaderBeams :
          data = [b \in Beams |->
                    IF b = <<1, 0>> THEN l
                    ELSE IF b = <<1, 1>> THEN r ELSE BeamTwoExtents]
    /\ resource = LongResource
            => data[<<1, 0>>] = BeamFatal /\ data[<<1, 1>>] = BeamFatal
    /\ (resource # LongResource /\ (parms.track = NoTrack \/ resource # GoodResource))
            => data = [b \in Beams |-> BeamTwoExtents]
    /\ InitReaderState

Next ==
    \/ CtorParse
    \/ CtorSpawnThread
    \/ CtorCountThread
    \/ CtorCheck
    \/ Destroy
    \/ \E b \in Beams : Worker(b)

Spec == Init /\ [][Next]_vars

\* Cancellation: the reader over one granule.  The scheduler keeps running
\* every started worker thread: the dataset joins of the setup return
\* within their timeout (no worker stays in its setup forever), and the
\* steps that leave the loops, post and complete are taken when they stay
\* possible.
InitCancel ==
    /\ parms = [BaseParms EXCEPT !.filter = "poly"]
    /\ resource = GoodResource
    /\ \E r \in ReaderBeams :
          data = [b \in Beams |-> IF b = <<1, 1>> THEN r ELSE BeamTwoExtents]
    /\ InitReaderState

SpecCancel ==
    /\ InitCancel /\ [][Next]_vars
    /\ \A b \in Beams :
          /\ []<>(wk[b].pc # "setup")
          /\ WF_vars(WorkerLoopExit(b))
          /\ WF_vars(WorkerPost(b))
          /\ WF_vars(WorkerComplete(b))

\* parseResource over the generated names: the constructor's first step
InitParse ==
    /\ parms = BaseParms
    /\ resource \in ParseResources
    /\ data = [b \in Beams |-> BeamTwoExtents]
    /\ InitReaderState

SpecParse == InitParse /\ [][CtorParse]_vars

\* The constructed reader of track 1 with a caller of the statistics
\* query: both threads are started and counted, none has run yet.
InitStats ==
    /\ parms = BaseParms
    /\ resource = GoodResource
    /\ data = [b \in Beams |-> BeamTwoExtents]
    /\ ctor = [pc |-> "done", i |-> NumBeams + 1, spawned |-> FALSE,
               counted |-> FALSE,
               start_rgt |-> parseResource(resource).rgt,
               start_cycle |-> parseResource(resource).cycle,
               start_region |-> parseResource(resource).region]
    /\ threadCount = NUM_PAIR_TRACKS
    /\ numComplete = 0
    /\ active = TRUE
    /\ stats = ZeroStats
    /\ outQ = << >>
    /\ signals = 0
    /\ wk = [b \in Beams |-> IF b[1] = parms.track
                             THEN [IdleWorker EXCEPT !.pc = "setup"]
                             ELSE IdleWorker]
    /\ lua = IdleLua
    /\ yapc = IdleYapc
    /\ curl = IdleCurl

NextStats == (\E b \in Beams : Worker(b)) \/ luaStats

SpecStats == InitStats /\ [][NextStats]_vars

\* One worker: the constructor has started the thread of beam (1, 0) and
\* counted it; the worker runs its pipeline over a beam of D with the
\* parameters p.
InitWorker(p, d) ==
    /\ parms = p
    /\ resource = GoodResource
    /\ data = [b \in Beams |-> IF b = <<1, 0>> THEN d ELSE BeamTwoExtents]
    /\ ctor = [pc |-> "spawn", i |-> 2, spawned |-> FALSE, counted |-> FALSE,
               start_rgt |-> parseResource(resource).rgt,
               start_cycle |-> parseResource(resource).cycle,
               start_region |-> parseResource(resource).region]
    /\ threadCount = 1
    /\ numComplete = 0
    /\ active = TRUE
    /\ stats = ZeroStats
    /\ outQ = << >>
    /\ signals = 0
    /\ wk = [b \in Beams |-> IF b = <<1, 0>>
                             THEN [IdleWorker EXCEPT !.pc = "setup"]
                             ELSE IdleWorker]
    /\ lua = IdleLua
    /\ yapc = IdleYapc
    /\ curl = IdleCurl

\* the extent state machine over the generated beams
InitExtent == \E p \in ExtentParms, d \in ExtentBeams : InitWorker(p, d)

NextWorker == \E b \in Beams : Worker(b)

SpecExtent == InitExtent /\ [][NextWorker]_vars

\* the region cropper: every count array and every pattern of inclusion
\* results, under a polygon and under a raster
InclusionPatterns(n) == [1..n -> BOOLEAN]

RegionBeams ==
    { MakeBeam(t[1], t[2], 20, [i \in 1..SeqSum(t[1]) |-> PhotonGood0], << >>) :
        t \in { u \in CountArrays \X UNION { InclusionPatterns(n) : n \in 1..MaxSegs } :
                  Len(u[1]) = Len(u[2]) } }

RegionParms ==
    { [BaseParms EXCEPT !.filter = f] : f \in {"poly", "raster"} }

InitRegion == \E p \in RegionParms, d \in RegionBeams : InitWorker(p, d)

SpecRegion == InitRegion /\ [][NextWorker]_vars

\* the ATL08 join: up to MaxRows rows, sorted by (ph_segment_id,
\* classed_pc_indx) with unique keys; a row's flag is its classed_pc_indx
MaxRows == 3

RowKeys == ((FirstSegmentId - 1)..(FirstSegmentId + 1)) \X (1..3)

KeyLess(k1, k2) == k1[1] < k2[1] \/ (k1[1] = k2[1] /\ k1[2] < k2[2])

RowArrays ==
    { [i \in 1..Len(ks) |-> [seg |-> ks[i][1], indx |-> ks[i][2],
                             flag |-> ks[i][2]]] :
        ks \in { k \in UNION { [1..n -> RowKeys] : n \in 0..MaxRows } :
                   \A i \in 1..(Len(k) - 1) : KeyLess(k[i], k[i + 1]) } }

ClassifyCounts == { <<3>>, <<1, 2>>, <<2, 0, 1>>, <<0, 3>>, <<1, 1, 1>> }

ClassifyBeams ==
    { MakeBeam(c, AllIncluded(Len(c)), 20,
               [i \in 1..SeqSum(c) |-> PhotonGood0], rows) :
        <<c, rows>> \in ClassifyCounts \X RowArrays }

ClassifyParms ==
    { [BaseParms EXCEPT !.stage_atl08 = TRUE],
      [BaseParms EXCEPT !.stage_atl08 = TRUE,
                        !.atl08_class = Table(ClassIndexes, {1, 3})] }

InitClassify == \E p \in ClassifyParms, d \in ClassifyBeams : InitWorker(p, d)

SpecClassify == InitClassify /\ [][NextWorker]_vars

\* the background rate of the extents of the beams with background samples
InitBackground ==
    \E p \in BackgroundParms, d \in BackgroundBeams : InitWorker(p, d)

SpecBackground == InitBackground /\ [][NextWorker]_vars

\* the ancillary records of the extents: every choice of the three field
\* lists (the ATL08 fields are requested together with the ATL08 stage),
\* beams whose segments lie in both land segments, cropped or not by a
\* polygon that leaves the first segment out
AncillaryRows ==
    DefaultRows \o << [seg |-> FirstSegmentId + 2, indx |-> 1, flag |-> 1] >>

AncillaryBeams ==
    { MakeBeam(c, incl, 20, [i \in 1..SeqSum(c) |-> PhotonGood0],
               AncillaryRows) :
        c \in {<<1, 1, 1>>, <<1, 3, 1>>, <<2, 0, 1>>},
        incl \in {<<TRUE, TRUE, TRUE>>, <<FALSE, TRUE, TRUE>>} }

AncillaryParms ==
    { [BaseParms EXCEPT !.atl03_ph_fields = ph, !.atl03_geo_fields = geo,
                        !.atl08_fields = land,
                        !.stage_atl08 = (land # << >>),
                        !.filter = f, !.extent_length = len] :
        ph \in {<< >>, <<"ph1">>},
        geo \in {<< >>, <<"geo1">>, <<"geo2", "geo1">>},
        land \in {<< >>, <<"land1">>},
        f \in {"none", "poly"}, len \in {20, 40} }

InitAncillary ==
    \E p \in AncillaryParms, d \in AncillaryBeams : InitWorker(p, d)

SpecAncillary == InitAncillary /\ [][NextWorker]_vars

\* the PhoREAL stage over beams of two segments with one photon and one
\* ATL08 row each: segment ids that count from 1 or from FirstSegmentId,
\* low or high sun, strong or weak spot, high or medium confidence, reliefs
\* below and above 35 m, ground or top-of-canopy rows
AboveBeam(first_id, solar, spot, cnf, relief, flags) ==
    [MakeBeam(<<1, 1>>, <<TRUE, TRUE>>, 20,
              [i \in 1..2 |-> [PhotonGood0 EXCEPT !.cnf = cnf[i]]],
              [i \in 1..2 |-> [seg |-> first_id + (i - 1), indx |-> 1,
                               flag |-> flags[i]]])
        EXCEPT !.seg_id = [i \in 1..2 |-> first_id + (i - 1)],
               !.solar_elevation = solar, !.spot = spot, !.ph_h = relief]

AboveBeams ==
    { AboveBeam(first_id, solar, spot, cnf, relief, flags) :
        first_id \in {1, FirstSegmentId},
        solar \in [1..2 -> {0, 90}], spot \in {1, 2},
        cnf \in [1..2 -> {CNF_SURFACE_HIGH, CNF_SURFACE_HIGH - 1}],
        relief \in [1..2 -> {10, 40}],
        flags \in {<<1, 1>>, <<1, ATL08_TOP_OF_CANOPY>>} }

\* land segments that cover the ATL03 segments, that end before them, that
\* begin after the first of them, and that leave a gap
LandBeams ==
    { [MakeBeam(<<1, 1, 1>>, <<TRUE, TRUE, TRUE>>, 20,
                <<PhotonGood0, PhotonGood0, PhotonGood0>>, AncillaryRows)
        EXCEPT !.segment_id_beg = beg] :
        beg \in { LandSegments, <<FirstSegmentId - 5>>,
                  <<FirstSegmentId + 1>>,
                  <<FirstSegmentId - 4, FirstSegmentId + 2>> } }

PhorealParms ==
    { [BaseParms EXCEPT !.stage_atl08 = TRUE, !.stage_phoreal = TRUE,
                        !.above_classifier = above] : above \in BOOLEAN }

InitPhoreal ==
    \E p \in PhorealParms, d \in AboveBeams \cup LandBeams : InitWorker(p, d)

SpecPhoreal == InitPhoreal /\ [][NextWorker]_vars

\* YAPC over small beams: segments 4 m apart, photons at 0 m or 6 m along
\* their segment and 0 m or 2 m high; windows of 4 m or 16 m along track and
\* of 2 m or 8 m in height
YapcSegmentSpacing == 4

YapcAlong == {0, 6}

YapcHeights == {0, 2}

YapcBeams ==
    { [cnt |-> c, dist_x |-> SegmentDists(Len(c), YapcSegmentSpacing),
       along |-> a, h |-> h] :
        c \in CountArraysUpTo(MaxYapcSegs, MaxYapcPhotons),
        a \in UNION { [1..n -> YapcAlong] : n \in 1..MaxYapcPhotons },
        h \in UNION { [1..n -> YapcHeights] : n \in 1..MaxYapcPhotons } }

YapcSettings ==
    [version : {2, 3}, knn : {0, 1}, min_knn : {0, 1, 2},
     win_x : {4, 16}, win_h : {2, 8}]

InitYapc ==
    /\ parms = BaseParms
    /\ resource = GoodResource
    /\ data = [b \in Beams |-> BeamTwoExtents]
    /\ ctor = [pc |-> "parse", i |-> 0, spawned |-> FALSE, counted |-> FALSE,
               start_rgt |-> 0, start_cycle |-> 0, start_region |-> 0]
    /\ threadCount = 0
    /\ numComplete = 0
    /\ active = TRUE
    /\ stats = ZeroStats
    /\ outQ = << >>
    /\ signals = 0
    /\ wk = [b \in Beams |-> IdleWorker]
    /\ lua = IdleLua
    /\ curl = IdleCurl
    /\ \E y \in YapcBeams, s \in YapcSettings :
          /\ Len(y.along) = SeqSum(y.cnt) /\ Len(y.h) = SeqSum(y.cnt)
          /\ yapc = [IdleYapc EXCEPT !.pc = "input", !.y = y, !.s = s]

SpecYapc == InitYapc /\ [][YapcScoreRun]_vars

\* A record in its serial form, as the parser reads it: the header's
\* version, type_size and data_size, then the type and the data
SerialHeader(version, type_size, data_size) ==
    <<(version \div 256) % 256, version % 256,
      (type_size \div 256) % 256, type_size % 256,
      (data_size \div 16777216) % 256, (data_size \div 65536) % 256,
      (data_size \div 256) % 256, data_size % 256>>

Serialize(r) ==
    SerialHeader(r.version, Len(r.type), Len(r.data)) \o r.type \o r.data

RECURSIVE ResponseStream(_)
ResponseStream(records) ==
    IF records = << >> THEN << >>
    ELSE Serialize(Head(records)) \o ResponseStream(Tail(records))

\* records with a type and with or without data, a record of a header
\* only, and a record of another format version
CurlRecords ==
    {[version |-> RECORD_FORMAT_VERSION, type |-> <<97, 0>>, data |-> << >>],
     [version |-> RECORD_FORMAT_VERSION, type |-> <<98, 0>>, data |-> <<7>>],
     [version |-> RECORD_FORMAT_VERSION, type |-> << >>, data |-> << >>],
     [version |-> RECORD_FORMAT_VERSION - 1, type |-> <<97, 0>>, data |-> << >>]}

CurlResponses == UNION { [1..n -> CurlRecords] : n \in 1..MaxRecords }

\* postAsRecord up to curl_easy_perform: the parser is initialized and the
\* transfer of a response begins
InitCurl ==
    /\ parms = BaseParms
    /\ resource = GoodResource
    /\ data = [b \in Beams |-> BeamTwoExtents]
    /\ ctor = [pc |-> "parse", i |-> 0, spawned |-> FALSE, counted |-> FALSE,
               start_rgt |-> 0, start_cycle |-> 0, start_region |-> 0]
    /\ threadCount = 0
    /\ numComplete = 0
    /\ active = TRUE
    /\ stats = ZeroStats
    /\ outQ = << >>
    /\ signals = 0
    /\ wk = [b \in Beams |-> IdleWorker]
    /\ lua = IdleLua
    /\ yapc = IdleYapc
    /\ \E records \in CurlResponses, has_active, with_terminator \in BOOLEAN :
          curl = [IdleCurl EXCEPT
                    !.pc = "perform",
                    !.records = records,
                    !.stream = ResponseStream(records),
                    !.has_active = has_active,
                    !.with_terminator = with_terminator]

NextCurl == postRecords \/ ActiveCleared \/ postAsRecord

SpecCurl == InitCurl /\ [][NextCurl]_vars

(***************************************************************************)
(* Properties                                                              *)
(***************************************************************************)
IsRecord(m) == m.type \in {"atl03rec", "exceptrec"}

IsTerminator(m) == m.type = "terminator"

Terminators == SelectSeq(outQ, IsTerminator)

\* the extent records of beam b, in queue order
BeamExtents(b) ==
    SelectSeq(outQ, LAMBDA m : m.type = "atl03rec" /\ m.beam = b)

\* the records (of any kind) posted by the thread of beam b
BeamPosts(b) == SelectSeq(outQ, LAMBDA m : IsRecord(m) /\ m.beam = b)

SelectedBeams == { b \in Beams : parms.track = ALL_TRACKS \/ b[1] = parms.track }

Started(b) == wk[b].pc \in {"loop", "post"}

Finished(b) == wk[b].pc = "done"

\* the reader has nothing left to do: construction failed, or construction
\* is complete and every selected worker has left its completion block
ReaderFinished ==
    \/ ctor.pc = "failed"
    \/ ctor.pc = "done" /\ \A b \in SelectedBeams : Finished(b)

\* C1: the terminator is posted only after every worker the constructor
\* spawns has finished, and no extent or exception record is posted after
\* the terminator.
C1_TerminatorLast ==
    /\ Len(Terminators) > 0 =>
          \/ ctor.pc = "failed"
          \/ \A b \in SelectedBeams : Finished(b)
    /\ \A i, j \in 1..Len(outQ) :
          (i < j /\ IsTerminator(outQ[i])) => ~IsRecord(outQ[j])

ExpectedTerminators == IF parms.send_terminator THEN 1 ELSE 0

\* C2: over the lifetime of a reader exactly one terminator is posted when
\* send_terminator is set (none when it is unset) and completion is
\* signalled exactly once, whether construction fails or the workers run to
\* their end.
C2_ExactlyOneTerminator ==
    /\ Len(Terminators) <= ExpectedTerminators
    /\ signals <= 1
    /\ ReaderFinished =>
          /\ Len(Terminators) = ExpectedTerminators
          /\ signals = 1

\* C3: crop closure.  After a Region construction under a polygon or a
\* raster that yields a non-empty crop, num_photons is the sum of
\* segment_ph_cnt over [first_segment, first_segment + num_segments) and
\* first_photon is the sum of segment_ph_cnt over [0, first_segment).
C3_CropClosure ==
    \A b \in Beams :
        (Started(b) /\ parms.filter # "none") =>
            LET r == wk[b].region
                cnt == data[b].cnt
            IN /\ r.num_photons > 0
               /\ r.first_segment >= 0
               /\ r.first_segment + r.num_segments <= Len(cnt)
               /\ r.num_photons =
                    SumRange(cnt, r.first_segment, r.first_segment + r.num_segments)
               /\ r.first_photon = SumRange(cnt, 0, r.first_segment)

\* a raster crop that starts after the first segment, skips photons and
\* ends before the last segment
C3_Witness ==
    \E b \in Beams :
        /\ Started(b) /\ parms.filter = "raster"
        /\ wk[b].region.first_segment > 0
        /\ wk[b].region.first_photon > 0
        /\ wk[b].region.first_segment + wk[b].region.num_segments < Len(data[b].cnt)
        /\ \E s \in 1..Len(data[b].cnt) : data[b].cnt[s] = 0

\* every extent record handed to the queue: accepted or being posted
ExtentRecords ==
    { outQ[i] : i \in { j \in 1..Len(outQ) : outQ[j].type = "atl03rec" } }
      \cup UNION { { wk[b].pending[i] : i \in 1..Len(wk[b].pending) } : b \in Beams }

\* C4: filter conservation.  Every photon of an emitted extent record is
\* the photon of the beam at its index and passes the signal-confidence and
\* quality tables, the ATL08 class table when the classification exists and
\* the YAPC threshold when the score exists.
C4_FilterConservation ==
    \A m \in ExtentRecords :
        \A k \in 1..Len(m.photons) :
            LET ph == m.photons[k]
                src == At(wk[m.beam].atl03.ph, ph.index)
            IN /\ ph.atl03_cnf = src.cnf
               /\ ph.quality_ph = src.quality
               /\ parms.atl03_cnf[ph.atl03_cnf + SIGNAL_CONF_OFFSET]
               /\ parms.quality_ph[ph.quality_ph]
               /\ parms.stage_atl08 =>
                    /\ ph.atl08_class = At(wk[m.beam].atl08.classification, ph.index)
                    /\ parms.atl08_class[ph.atl08_class]
               /\ parms.stage_yapc =>
                    /\ ph.yapc_score = src.score
                    /\ ph.yapc_score >= parms.yapc_score

\* an extent posted with both stages active whose walk rejected a photon
\* lying between two accepted ones
C4_Witness ==
    /\ parms.stage_atl08 /\ parms.stage_yapc
    /\ \E i \in 1..Len(outQ) :
          /\ outQ[i].type = "atl03rec"
          /\ Len(outQ[i].photons) >= 2
          /\ outQ[i].photons[2].index > outQ[i].photons[1].index + 1

LocalExtents(b) ==
    wk[b].local_stats.extents_sent + wk[b].local_stats.extents_dropped
        + wk[b].local_stats.extents_filtered

\* C5: within a beam extent_counter grows by one with every generated
\* extent (sent, dropped or filtered), so the counters of the beam's posted
\* records strictly increase in queue order.
C5_ExtentCounterOrder ==
    \A b \in Beams :
        LET recs == BeamExtents(b)
        IN /\ wk[b].extent_counter = LocalExtents(b)
           /\ \A i \in 1..Len(recs) : recs[i].extent_counter < wk[b].extent_counter
           /\ \A i \in 1..Len(wk[b].pending) :
                 wk[b].pending[i].extent_counter = wk[b].extent_counter
           /\ \A i, j \in 1..Len(recs) :
                 i < j => recs[i].extent_counter < recs[j].extent_counter

\* two posted records of a beam with a filtered or dropped extent between
C5_Witness ==
    \E b \in Beams :
        /\ Len(BeamExtents(b)) >= 2
        /\ BeamExtents(b)[2].extent_counter > BeamExtents(b)[1].extent_counter + 1

NonDecreasingDistance(b) ==
    LET recs == BeamExtents(b)
    IN \A i \in 1..(Len(recs) - 1) :
          recs[i].segment_distance <= recs[i + 1].segment_distance

\* C6: for consecutive emitted extents of a beam segment_distance is
\* non-decreasing, in meters mode and in segments mode, for every strictly
\* increasing segment_dist_x array and every extent_step >= 0.
C6_DistanceMonotonic == \A b \in Beams : NonDecreasingDistance(b)

RECURSIVE GeneratedUpTo(_)
\* sum of extent_counter over the first i beams
GeneratedUpTo(i) ==
    IF i = 0 THEN 0 ELSE wk[BeamAt(i)].extent_counter + GeneratedUpTo(i - 1)

\* C7: counter conservation.  For every worker's local counters and for the
\* reader's folded statistics, extents_sent + extents_dropped +
\* extents_filtered is at most the number of extents generated so far.
C7_CounterConservation ==
    /\ \A b \in Beams : LocalExtents(b) <= wk[b].extent_counter
    /\ stats.extents_sent + stats.extents_dropped + stats.extents_filtered
            <= GeneratedUpTo(NumBeams)

\* the folded statistics hold sent, dropped and filtered extents while
\* another worker is still generating extents
C7_Witness ==
    /\ stats.extents_sent >= 1
    /\ stats.extents_dropped >= 1
    /\ stats.extents_filtered >= 1
    /\ \E b \in Beams : wk[b].pc = "post" /\ wk[b].extent_counter >= 1

\* the ATL08 rows keyed (segment id, photon index within the segment)
RowsKeyed(rows, seg, indx) ==
    { r \in 1..Len(rows) : rows[r].seg = seg /\ rows[r].indx = indx }

\* C8: ATL08 join.  The c-th photon of the ATL03 segment with id S gets the
\* flag of the ATL08 row keyed (S, c) when there is one and
\* ATL08_UNCLASSIFIED otherwise; the ATL08 cursor never moves backward and
\* no ATL08 row is matched to two photons.
C8_Atl08Join ==
    \A b \in Beams :
        (Started(b) /\ parms.stage_atl08) =>
            LET k == wk[b].atl08
                rows == data[b].rows
                ids == wk[b].atl03.segment_id
                cnt == wk[b].region.segment_ph_cnt
            IN /\ Len(k.classification) = SumRange(cnt, 0, Len(ids))
               /\ \A s \in 1..Len(ids) :
                    \A c \in 1..cnt[s] :
                        LET keyed == RowsKeyed(rows, ids[s], c)
                        IN k.classification[SumRange(cnt, 0, s - 1) + c] =
                              IF keyed # {}
                              THEN rows[CHOOSE r \in keyed : TRUE].flag
                              ELSE ATL08_UNCLASSIFIED
               /\ \A i, j \in 1..Len(k.cursor) :
                    i < j => k.cursor[i] <= k.cursor[j]
               /\ \A i, j \in 1..Len(k.matched) :
                    (i # j /\ k.matched[i] # -1) => k.matched[i] # k.matched[j]

\* rows (100,1,1) and (100,3,3) against the 3 photons of segment 100
C8_Witness ==
    \E b \in Beams :
        /\ Started(b) /\ parms.stage_atl08
        /\ data[b].rows = << [seg |-> FirstSegmentId, indx |-> 1, flag |-> 1],
                             [seg |-> FirstSegmentId, indx |-> 3, flag |-> 3] >>
        /\ wk[b].region.segment_ph_cnt = <<3>>
        /\ wk[b].atl08.classification = <<1, ATL08_UNCLASSIFIED, 3>>

HitEmptySubset(b) ==
    \E i \in 1..Len(wk[b].thrown) : wk[b].thrown[i].code = "RTE_EMPTY_SUBSET"

\* C9: a beam whose polygon or raster filter covers no non-empty segment
\* posts no record of any kind, and the terminator is still posted once
\* all workers are done.
C9_EmptySubsetSilent ==
    \A b \in SelectedBeams :
        HitEmptySubset(b) =>
            /\ BeamPosts(b) = << >>
            /\ (ReaderFinished /\ parms.send_terminator) =>
                    Len(Terminators) = 1

\* C10: a fatal error in one beam's worker aborts only that beam: while the
\* reader is active every other worker runs its track to the end, the
\* failed worker counts toward completion, and the terminator is posted
\* when, and only when, every worker has finished.
C10_FatalIsolation ==
    \A a \in SelectedBeams :
        wk[a].thrown # << >> =>
            /\ wk[a].pc \in {"complete", "done"}
            /\ wk[a].pc = "done" => numComplete >= 1
            /\ \A b \in SelectedBeams \ {a} :
                  (Finished(b) /\ active /\ wk[b].thrown = << >>) =>
                        \/ wk[b].state.track_complete
                        \/ wk[b].extent_counter >= MaxExtents
            /\ (\A b \in SelectedBeams : Finished(b)) =>
                    Len(Terminators) = ExpectedTerminators
            /\ Len(Terminators) > 0 => \A b \in SelectedBeams : Finished(b)

(***************************************************************************)
(* C11: exception records of the workers.                                  *)
(***************************************************************************)
\* one record per raised error, with its code and level, generated before
\* the completion block; none without an error; what reaches the queue is
\* the generated record
OneRecordPerError(b) ==
    LET w == wk[b]
    IN /\ Len(w.exceptions) = Len(w.thrown)
       /\ Len(w.thrown) <= 1
       /\ w.exceptions # << >> => w.pc \in {"complete", "done"}
       /\ \A i \in 1..Len(w.exceptions) :
             /\ w.exceptions[i].type = "exceptrec"
             /\ w.exceptions[i].code = w.thrown[i].code
             /\ w.exceptions[i].level = w.thrown[i].level
       /\ \A i \in 1..Len(outQ) :
             (outQ[i].type = "exceptrec" /\ outQ[i].beam = b)
                => w.exceptions = <<outQ[i]>>

\* s is the leading part of t
IsLeadingPart(s, t) == Len(s) <= Len(t) /\ s = SubSeq(t, 1, Len(s))

\* C11 as stated: every worker that leaves its pipeline through a raised
\* error generates exactly one exception record, carrying the code and
\* level of the raised error and a text that contains the resource string,
\* before it folds its statistics; a worker that ends without error
\* generates none
C11_OneExceptionRecord ==
    \A b \in Beams :
        /\ OneRecordPerError(b)
        /\ \A i \in 1..Len(wk[b].exceptions) :
              Contains(wk[b].exceptions[i].text, resource)

\* C11 amended: every worker that leaves its pipeline through a raised
\* error generates exactly one exception record, carrying the code and
\* level of the raised error and a text that contains the resource string
\* whenever the message "<what>: (<resource>)" fits in
\* MAX_EXCEPTION_TEXT_SIZE - 2 characters and is the first
\* MAX_EXCEPTION_TEXT_SIZE - 2 characters of that message otherwise, before
\* it folds its statistics; a worker that ends without error generates none
C11_OneExceptionRecordBounded ==
    \A b \in Beams :
        /\ OneRecordPerError(b)
        /\ \A i \in 1..Len(wk[b].exceptions) :
              LET text == wk[b].exceptions[i].text
                  what == wk[b].thrown[i].what
                  fits == Len(what) + Len(resource) + 4
                             <= MAX_EXCEPTION_TEXT_SIZE - 2
              IN /\ fits => Contains(text, resource)
                 /\ ~fits => Len(text) = MAX_EXCEPTION_TEXT_SIZE - 2
                 /\ IsLeadingPart(what, text) \/ IsLeadingPart(text, what)
                 /\ Len(text) > Len(what) + 3
                      => IsLeadingPart(SubSeq(text, Len(what) + 4, Len(text)),
                                       resource \o <<41>>)

C11_Witness ==
    /\ resource = LongResource
    /\ \E b \in Beams :
          /\ wk[b].pc = "done"
          /\ wk[b].thrown # << >>
          /\ \E i \in 1..Len(outQ) : outQ[i] = wk[b].exceptions[1]
          /\ ~Contains(wk[b].exceptions[1].text, resource)
          /\ Contains(wk[b].exceptions[1].text, GoodResource)

(***************************************************************************)
(* C12: out-of-range data is always fatal for the beam: whenever the       *)
(* extent machine evaluates a photon within an extent's length whose       *)
(* signal confidence, quality or (ATL08 active) class is out of range, the *)
(* worker aborts with an error and emits no further extents, whatever the  *)
(* outcome of the photon's other acceptance tests.                         *)
(***************************************************************************)
OutOfRange(t) ==
    \/ t.atl03_cnf < CNF_POSSIBLE_TEP \/ t.atl03_cnf > CNF_SURFACE_HIGH
    \/ t.quality_ph < QUALITY_NOMINAL \/ t.quality_ph > QUALITY_POSSIBLE_TEP
    \/ parms.stage_atl08
          /\ (t.atl08_class < 0 \/ t.atl08_class >= NUM_ATL08_CLASSES)

C12_OutOfRangeFatal ==
    \A b \in Beams :
        (\E i \in 1..Len(wk[b].tested) : OutOfRange(wk[b].tested[i]))
            => /\ wk[b].thrown # << >>
               /\ wk[b].pc \in {"complete", "done"}

(***************************************************************************)
(* C13: accounting of postRecord.                                          *)
(***************************************************************************)
Returned(b, post_status) == wk[b].attempts[post_status]

\* what the claim keeps of both statements: one retry per timed-out
\* attempt, exactly one of sent and dropped per call, sent exactly when the
\* queue accepted the record, a record accepted at most once
PostAccounting(b) ==
    LET s == wk[b].local_stats
    IN /\ s.extents_retried = Returned(b, "timeout")
       /\ s.extents_sent + s.extents_dropped = wk[b].calls
       /\ s.extents_sent = Returned(b, "posted")
       /\ s.extents_sent = Len(BeamExtents(b))
       /\ \A i, j \in 1..Len(BeamExtents(b)) :
             i # j => BeamExtents(b)[i].extent_counter
                        # BeamExtents(b)[j].extent_counter

\* C13 as stated: a record handed to postRecord is counted in
\* extents_dropped only when the queue returned a non-retryable error for it
C13_DroppedOnlyOnError ==
    \A b \in Beams :
        /\ PostAccounting(b)
        /\ wk[b].local_stats.extents_dropped = Returned(b, "error")

\* C13 amended: a record handed to postRecord is counted in extents_dropped
\* only when the queue returned a non-retryable error for it or active was
\* cleared before the queue accepted it (each call counts the record as
\* dropped unless the queue accepted it); the rest of the claim as stated
C13_DroppedOnErrorOrInactive ==
    \A b \in Beams :
        /\ PostAccounting(b)
        /\ wk[b].local_stats.extents_dropped >= Returned(b, "error")
        /\ wk[b].local_stats.extents_dropped > Returned(b, "error") => ~active
        /\ wk[b].local_stats.extents_dropped
                = wk[b].calls - Returned(b, "posted")

C13_Witness ==
    \E b \in Beams :
        /\ wk[b].local_stats.extents_dropped > Returned(b, "error")
        /\ wk[b].local_stats.extents_retried > 0
        /\ wk[b].local_stats.extents_sent > 0

(***************************************************************************)
(* C14: cooperative cancellation.  Once the destructor has set active to   *)
(* false, every worker eventually leaves the extent loop or the post-retry *)
(* loop, folds its statistics, counts its completion and exits, and no     *)
(* worker that finds the flag cleared at the top of its loop starts        *)
(* another extent iteration.                                               *)
(***************************************************************************)
AllExited == \A b \in Beams : wk[b].pc \in {"idle", "done"}

NoIterationOnceInactive ==
    \A b \in Beams :
        (~active /\ wk[b].pc = "loop")
            => /\ wk'[b].pc \in {"loop", "complete"}
               /\ wk'[b].state = wk[b].state
               /\ wk'[b].extent_counter = wk[b].extent_counter

C14_Cancellation ==
    /\ (~active) ~> AllExited
    /\ [][NoIterationOnceInactive]_vars

C14_Witness ==
    /\ ~active
    /\ AllExited
    /\ numComplete = threadCount
    /\ \E b \in Beams :
          /\ wk[b].pc = "done"
          /\ ~wk[b].state.track_complete
          /\ wk[b].thrown = << >>
          /\ wk[b].local_stats.extents_dropped > 0

(***************************************************************************)
(* C15: the statistics query returns a consistent snapshot and its reset   *)
(* is atomic with respect to the workers folding their counters: each      *)
(* worker's folded counters are reported by exactly one query, none lost   *)
(* by the reset and none observed partially folded.  Hence, whenever no    *)
(* query is running, what the clearing queries returned plus what is left  *)
(* in stats is the sum of the folded counters.                             *)
(***************************************************************************)
RECURSIVE FoldedStats(_)
\* the sum of the local counters of the workers of beams 1..i that folded
FoldedStats(i) ==
    IF i = 0 THEN ZeroStats
    ELSE AddStats(FoldedStats(i - 1),
                  IF wk[BeamAt(i)].pc = "done"
                  THEN wk[BeamAt(i)].local_stats ELSE ZeroStats)

C15_StatsResetAtomic ==
    lua.pc = "idle" => AddStats(lua.reported, stats) = FoldedStats(NumBeams)

(***************************************************************************)
(* C16: a construction-time failure (no beam selected, or a resource name  *)
(* that cannot be parsed) spawns no worker thread, posts exactly one       *)
(* exception record, then the terminator if send_terminator is set, and    *)
(* signals completion; for the zero-beam case the failure reported is      *)
(* CRITICAL level with the generic ERROR code.                             *)
(***************************************************************************)
ExceptionRecords == SelectSeq(outQ, LAMBDA m : m.type = "exceptrec")

ZeroBeamCase == parseResource(resource).ok /\ parms.track = NoTrack

FailureProtocol ==
    /\ \A b \in Beams : wk[b].pc = "idle"
    /\ threadCount = 0
    /\ signals = 1
    /\ Len(ExceptionRecords) <= 1
    /\ Len(Terminators) = IF parms.send_terminator THEN 1 ELSE 0
    /\ Len(outQ) = Len(ExceptionRecords) + Len(Terminators)
    /\ parms.send_terminator => IsTerminator(outQ[Len(outQ)])
    /\ \A i \in 1..Len(ExceptionRecords) :
          ExceptionRecords[i].level = "CRITICAL"

C16_ConstructionFailure ==
    ctor.pc = "failed"
        => /\ FailureProtocol
           /\ ZeroBeamCase
                => \A i \in 1..Len(ExceptionRecords) :
                      ExceptionRecords[i].code = "RTE_ERROR"

(***************************************************************************)
(* C17: for every resource name of at least 29 characters whose characters *)
(* at positions 21-28 are decimal digits, parseResource returns rgt, cycle *)
(* and region equal to the base-10 values of characters 21-24, 25-26 and   *)
(* 27-28, so that formatting them back as zero-padded 4/2/2-digit fields   *)
(* reproduces characters 21-28; it raises an error only when one of those  *)
(* substrings is not numeric.                                              *)
(***************************************************************************)
RECURSIVE DecimalValue(_)
\* base-10 value of a string of digits
DecimalValue(s) ==
    IF s = << >> THEN 0
    ELSE 10 * DecimalValue(SubSeq(s, 1, Len(s) - 1)) + (s[Len(s)] - 48)

\* printf's %0<width>d for n >= 0
ZeroPadded(n, width) ==
    [i \in 1..(width - Len(Digits(n))) |-> 48] \o Digits(n)

AllDigits(s) == \A i \in 1..Len(s) : IsDigit(s[i])

Parsed == ctor.pc \in {"spawn", "failed"}

C17_ParseRoundTrip ==
    (Parsed /\ Len(resource) >= RESOURCE_NAME_LENGTH)
        => LET fields == SubSeq(resource, 22, 29)
           IN /\ AllDigits(fields)
                   => /\ ctor.pc = "spawn"
                      /\ ctor.start_rgt = DecimalValue(SubSeq(resource, 22, 25))
                      /\ ctor.start_cycle = DecimalValue(SubSeq(resource, 26, 27))
                      /\ ctor.start_region = DecimalValue(SubSeq(resource, 28, 29))
                      /\ ZeroPadded(ctor.start_rgt, 4)
                            \o ZeroPadded(ctor.start_cycle, 2)
                            \o ZeroPadded(ctor.start_region, 2) = fields
              /\ ctor.pc = "failed" => ~AllDigits(fields)

C17_Witness ==
    /\ ctor.pc = "spawn"
    /\ Len(resource) >= RESOURCE_NAME_LENGTH
    /\ AllDigits(SubSeq(resource, 22, 29))
    /\ ctor.start_rgt = 9070 /\ ctor.start_cycle = 1 /\ ctor.start_region = 11

(***************************************************************************)
(* C18: a resource name shorter than 29 characters makes parseResource     *)
(* return (0, 0, 0) without raising an error: construction does not take   *)
(* the failure path, workers are spawned for the selected beams as for a   *)
(* well-formed name and the constructor posts no exception record.         *)
(***************************************************************************)
C18_ShortResource ==
    (Len(resource) < RESOURCE_NAME_LENGTH /\ parms.track # NoTrack)
        => /\ ctor.pc # "failed"
           /\ ctor.start_rgt = 0 /\ ctor.start_cycle = 0
           /\ ctor.start_region = 0
           /\ \A i \in 1..Len(outQ) :
                 ~(outQ[i].type = "exceptrec" /\ outQ[i].beam = NoBeam)
           /\ ctor.pc = "done"
                => \A b \in Beams : wk[b].pc # "idle" <=> b \in SelectedBeams

C18_Witness ==
    /\ Len(resource) < RESOURCE_NAME_LENGTH
    /\ ctor.pc = "done"
    /\ \A b \in SelectedBeams : wk[b].pc = "done" /\ wk[b].thrown = << >>
    /\ \E i \in 1..Len(outQ) : outQ[i].type = "atl03rec"

(***************************************************************************)
(* C19: with no spatial filter, no stages, all acceptance tables true,     *)
(* meters mode and extent_step equal to extent_length, the generated       *)
(* extents partition the beam's photons: every photon index in             *)
(* [0, num_photons) appears in the photon list of exactly one generated    *)
(* extent, each with centered x_atc in [-extent_length/2,                  *)
(* +extent_length/2].                                                      *)
(***************************************************************************)
PartitionCase ==
    /\ parms.filter = "none" /\ ~parms.stage_atl08 /\ ~parms.stage_yapc
    /\ \A i \in CnfIndexes : parms.atl03_cnf[i]
    /\ \A i \in QualityIndexes : parms.quality_ph[i]
    /\ ~parms.dist_in_seg /\ parms.extent_step = parms.extent_length

\* the number of generated extents of beam b that list photon index i
Occurrences(b, i) ==
    Cardinality({ <<e, k>> \in (1..Len(wk[b].extents)) \X (1..Len(wk[b].atl03.ph)) :
                    /\ k <= Len(wk[b].extents[e])
                    /\ wk[b].extents[e][k].index = i })

C19_ExtentsPartition ==
    \A b \in Beams :
        (/\ PartitionCase
         /\ wk[b].pc \in {"complete", "done"}
         /\ wk[b].thrown = << >>
         /\ wk[b].state.track_complete)
            => /\ \A i \in 0..(Len(wk[b].atl03.ph) - 1) : Occurrences(b, i) = 1
               /\ \A e \in 1..Len(wk[b].extents) :
                     \A k \in 1..Len(wk[b].extents[e]) :
                        /\ 2 * wk[b].extents[e][k].x_atc >= -parms.extent_length
                        /\ 2 * wk[b].extents[e][k].x_atc <= parms.extent_length

OnlyNeighbours(i, j) ==
    /\ i # j
    /\ PhDist(yapc.y)[i] = PhDist(yapc.y)[j]
    /\ yapc.y.h[i] = yapc.y.h[j]
    /\ V3Proximities(yapc.y, yapc.s, i - 1) = <<0>>
    /\ V3Proximities(yapc.y, yapc.s, j - 1) = <<0>>

PairCase(i, j) ==
    /\ yapc.pc = "scored" /\ yapc.s.version = 3
    /\ i \in 1..Len(yapc.score) /\ j \in 1..Len(yapc.score)
    /\ OnlyNeighbours(i, j)

Interpolated(atl03, segment_time, rate) ==
    LET T == atl03.bckgrd_delta_time
        R == atl03.bckgrd_rate
        n == Len(R)
        after == { k \in 1..n : T[k] >= segment_time }
        k == CHOOSE x \in after : \A j \in after : x <= j
    IN /\ rate.den > 0
       /\ IF after = {} THEN rate.num = R[n] * rate.den
          ELSE IF k = 1 THEN rate.num = R[1] * rate.den
          ELSE /\ T[k] > T[k - 1]
               /\ rate.num * (T[k] - T[k - 1])
                     = rate.den * (R[k - 1] * (T[k] - T[k - 1])
                                     + (R[k] - R[k - 1]) * (segment_time - T[k - 1]))

BackgroundInterpolated ==
    \A b \in Beams :
        wk[b].pc = "post" =>
            Interpolated(wk[b].atl03,
                         At(wk[b].atl03.segment_delta_time,
                            wk[b].state.extent_segment),
                         wk[b].pending[1].background_rate)

CursorNeverDecreases ==
    \A b \in Beams :
        wk[b].pc # "setup" => wk'[b].state.bckgrd_in >= wk[b].state.bckgrd_in

\* C22: the background rate of an extent record is the piecewise-linear
\* interpolation of bckgrd_rate at the delta_time of the extent's segment:
\* the first rate when that time is not after the first sample, the last rate
\* when it is after every sample; and the cursor bckgrd_in never decreases
\* from one extent to the next.
C22_BackgroundRate ==
    [](BackgroundInterpolated) /\ [][CursorNeverDecreases]_vars

\* the spec's example: samples at times 0 and 10 with rates 100 and 200, a
\* segment at time 7, an emitted rate of 170
C22_Witness ==
    \E b \in Beams :
        /\ wk[b].pc = "post"
        /\ wk[b].atl03.bckgrd_delta_time = <<0, 10>>
        /\ wk[b].atl03.bckgrd_rate = <<100, 200>>
        /\ At(wk[b].atl03.segment_delta_time, wk[b].state.extent_segment) = 7
        /\ wk[b].pending[1].background_rate.num
              = 170 * wk[b].pending[1].background_rate.den
        /\ wk[b].state.bckgrd_in = 1

\* the visited photon v of the e-th extent of beam b is in the extent
Added(b, e, v) ==
    \E k \in 1..Len(wk[b].extents[e]) : wk[b].extents[e][k].index = v.index

\* the position of the segment of v in the arrays of the whole beam
BeamSegment(b, v) == wk[b].region.first_segment + v.segment + 1

\* v is within the extent length, passes the tables and the YAPC threshold
PassesTables(b, v) ==
    LET ph == At(wk[b].atl03.ph, v.index)
    IN /\ IF parms.dist_in_seg
          THEN v.along_track_segments < parms.extent_length
          ELSE v.x_atc < parms.extent_length
       /\ parms.atl03_cnf[ph.cnf + SIGNAL_CONF_OFFSET]
       /\ parms.quality_ph[ph.quality]
       /\ parms.stage_atl08
             => parms.atl08_class[At(wk[b].atl08.classification, v.index)]
       /\ parms.stage_yapc => ph.score >= parms.yapc_score

\* C23: a photon visited during an extent's walk is added to that extent if
\* and only if it is within the extent length, passes the confidence,
\* quality and (if active) ATL08-class tables, has a score of at least
\* yapc.score if YAPC is active and, under raster cropping, lies in a segment
\* whose inclusion bit, indexed relative to first_segment, is set; that bit
\* is only read for segments with a non-zero photon count.
C23_InclusionPredicate ==
    \A b \in Beams :
        \A e \in 1..Len(wk[b].walks) :
            \A n \in 1..Len(wk[b].walks[e]) :
                LET v == wk[b].walks[e][n]
                IN /\ Added(b, e, v)
                        <=> /\ PassesTables(b, v)
                            /\ parms.filter = "raster"
                                  => data[b].incl[BeamSegment(b, v)]
                   /\ data[b].cnt[BeamSegment(b, v)] > 0

\* under raster cropping a photon that passes every table is left out of its
\* extent because the raster does not include its segment, and another
\* photon of the same walk is added
C23_Witness ==
    \E b \in Beams :
        \E e \in 1..Len(wk[b].walks) :
            \E n, m \in 1..Len(wk[b].walks[e]) :
                LET v == wk[b].walks[e][n]
                    u == wk[b].walks[e][m]
                IN /\ parms.filter = "raster"
                   /\ wk[b].region.first_segment > 0
                   /\ PassesTables(b, v)
                   /\ ~data[b].incl[BeamSegment(b, v)]
                   /\ ~Added(b, e, v)
                   /\ Added(b, e, u)

\* v lies at or beyond the extent length
BeyondLength(v) ==
    IF parms.dist_in_seg THEN v.along_track_segments >= parms.extent_length
    ELSE v.x_atc >= parms.extent_length

\* v lies at or beyond the extent step
BeyondStep(v) ==
    IF parms.dist_in_seg THEN v.along_track_segments >= parms.extent_step
    ELSE v.x_atc >= parms.extent_step

\* every walk of every beam satisfies Q
EveryWalk(Q(_)) ==
    \A b \in Beams : \A e \in 1..Len(wk[b].walks) : Q(wk[b].walks[e])

EndsAtLength(walk) ==
    \A n \in 1..Len(walk) : BeyondLength(walk[n]) => n = Len(walk)

EndsAtLengthAndStep(walk) ==
    /\ \A n \in 1..Len(walk) :
          (/\ \E i \in 1..n : BeyondLength(walk[i])
           /\ \E i \in 1..n : BeyondStep(walk[i]))
             => n = Len(walk)
    /\ parms.extent_step <= parms.extent_length => EndsAtLength(walk)

\* C24 as stated: an extent's walk ends at the first visited photon at or
\* beyond the extent length, for all values of extent_length and extent_step:
\* no photon after that one is visited for the extent.
C24_WalkEndsAtLength == EveryWalk(EndsAtLength)

\* C24 amended: a walk ends at the first visited photon by which a photon at
\* or beyond the extent length and a photon at or beyond the extent step have
\* both been visited; when extent_step <= extent_length that is the first
\* photon at or beyond the extent length.
C24_WalkEndsAtLengthAndStep == EveryWalk(EndsAtLengthAndStep)

\* a walk that went on after the photon that ended the extent, to find the
\* first photon of the next extent
C24_Witness ==
    \E b \in Beams : \E e \in 1..Len(wk[b].walks) :
        LET walk == wk[b].walks[e]
        IN /\ parms.extent_step > parms.extent_length
           /\ \E n \in 1..(Len(walk) - 1) : BeyondLength(walk[n])
           /\ BeyondStep(walk[Len(walk)])

\* the iteration of beam b that sets track_complete still logs its extent
\* and either hands a record to postRecord or counts the extent as filtered
LastExtentHandled(b) ==
    (~wk[b].state.track_complete /\ wk'[b].state.track_complete)
        => /\ Len(wk'[b].extents) = Len(wk[b].extents) + 1
           /\ \/ /\ wk'[b].pc = "post"
                 /\ Len(wk'[b].pending) = 1
                 /\ wk'[b].pending[1].photons = wk'[b].extents[Len(wk'[b].extents)]
              \/ /\ wk'[b].pc = "loop"
                 /\ wk'[b].local_stats.extents_filtered
                       = wk[b].local_stats.extents_filtered + 1

\* once track_complete is set, beam b runs no further iteration
NoExtentAfterLast(b) ==
    wk[b].state.track_complete
        => /\ wk'[b].extents = wk[b].extents
           /\ wk'[b].walks = wk[b].walks
           /\ wk'[b].state = wk[b].state

\* C25: when an extent's walk reaches the end of the photons, track_complete
\* is set, that extent is still validated and emitted or filtered, and no
\* further extent is generated for the beam, even when the step marker was
\* latched at an earlier photon (ph_in < num_photons).
C25_LastExtent ==
    [][\A b \in Beams : LastExtentHandled(b) /\ NoExtentAfterLast(b)]_vars

\* a beam whose last walk latched the next extent's first photon and then
\* reached the end of the photons: the worker is done, the latched photon
\* started no extent
C25_Witness ==
    \E b \in Beams :
        /\ wk[b].pc \in {"complete", "done"}
        /\ wk[b].state.track_complete
        /\ wk[b].thrown = << >>
        /\ wk[b].state.ph_in < Len(wk[b].atl03.ph)
        /\ LET walk == wk[b].walks[Len(wk[b].walks)]
           IN \E n \in 1..Len(walk) :
                /\ walk[n].index = wk[b].state.ph_in
                /\ BeyondStep(walk[n])
                /\ walk[Len(walk)].index = Len(wk[b].atl03.ph) - 1
        /\ \A e \in 1..Len(wk[b].walks) :
              wk[b].walks[e][1].index # wk[b].state.ph_in

\* x_atc of the last photon minus x_atc of the first; 0 without photons
AlongTrackSpread(photons) ==
    IF photons = << >> THEN 0
    ELSE photons[Len(photons)].x_atc - photons[1].x_atc

ValidOnlyIfCountAndSpread ==
    \A m \in ExtentRecords :
        /\ m.valid => /\ Len(m.photons) >= parms.minimum_photon_count
                      /\ AlongTrackSpread(m.photons) >= parms.along_track_spread
        /\ ~m.valid => parms.pass_invalid

\* an iteration of beam b that ends with an invalid extent and pass_invalid
\* not set counts the extent as filtered once and posts nothing
FilteredOnce(b) ==
    (/\ Len(wk'[b].extents) = Len(wk[b].extents) + 1
     /\ ~wk'[b].state.extent_valid
     /\ ~parms.pass_invalid)
        => /\ wk'[b].local_stats.extents_filtered
                 = wk[b].local_stats.extents_filtered + 1
           /\ wk'[b].pending = << >>
           /\ outQ' = outQ

\* C26: an extent is marked valid only if it holds at least
\* minimum_photon_count photons and the along-track spread of its photons is
\* at least along_track_spread, for every photon count including 0 and 1; an
\* invalid extent is posted only when pass_invalid is set, and otherwise
\* increments extents_filtered exactly once and posts nothing.
C26_ExtentValidation ==
    [](ValidOnlyIfCountAndSpread) /\ [][\A b \in Beams : FilteredOnce(b)]_vars

\* the messages handed to the queue: accepted, or being posted
Messages ==
    { outQ[i] : i \in 1..Len(outQ) }
      \cup UNION { { wk[b].pending[i] : i \in 1..Len(wk[b].pending) } : b \in Beams }

\* the ancillary types of the records that follow the extent record
AncillaryTypes ==
    [i \in 1..Len(parms.atl03_ph_fields) |-> "PHOTON_ANC_TYPE"]
    \o [i \in 1..Len(parms.atl03_geo_fields) |-> "EXTENT_ANC_TYPE"]
    \o [i \in 1..Len(parms.atl08_fields) |-> "ATL08_ANC_TYPE"]

\* a bare extent record when no field is configured, otherwise a container
\* of the extent record and the ancillary records in the order of the types
MessageShape(m) ==
    /\ m.type # "ancrec"
    /\ m.type = "atl03rec" => AncillaryTypes = << >>
    /\ m.type = "conrec" =>
        /\ AncillaryTypes # << >>
        /\ Len(m.records) = 1 + Len(AncillaryTypes)
        /\ m.records[1].type = "atl03rec"
        /\ \A i \in 1..Len(AncillaryTypes) :
                /\ m.records[i + 1].type = "ancrec"
                /\ m.records[i + 1].anc_type = AncillaryTypes[i]

\* the extent record of a message
ExtentOf(m) == IF m.type = "conrec" THEN m.records[1] ELSE m

\* an extent built in this step is handed over in one message exactly when
\* it is valid or passed as invalid, and a post adds that one message or
\* nothing to the queue
HandedOnce(b) ==
    /\ Len(wk'[b].extents) = Len(wk[b].extents) + 1 =>
        /\ (wk'[b].state.extent_valid \/ parms.pass_invalid)
                <=> (wk'[b].pc = "post")
        /\ wk'[b].pc = "post" =>
            /\ Len(wk'[b].pending) = 1
            /\ ExtentOf(wk'[b].pending[1]).photons
                    = wk'[b].extents[Len(wk'[b].extents)]
        /\ outQ' = outQ
    /\ wk[b].pc = "post" /\ wk'[b].pc = "loop" =>
            outQ' \in {outQ, Append(outQ, wk[b].pending[1])}

\* C27: each extent that is valid or passed as invalid results in exactly
\* one message handed to the output queue: the bare extent record when no
\* ancillary record was generated, otherwise one container record that holds
\* the extent record first and then one ancillary record for each
\* configured field, photon fields before geolocation fields before ATL08
\* fields; an ancillary record is never a message of its own.
C27_OneMessagePerExtent ==
    /\ [](\A m \in Messages : MessageShape(m))
    /\ [][\A b \in Beams : HandedOnce(b)]_vars

\* a container with the records of one photon field, two geolocation fields
\* and one ATL08 field was accepted by the queue
C27_Witness ==
    \E i \in 1..Len(outQ) :
        /\ outQ[i].type = "conrec"
        /\ Len(outQ[i].records) = 5

\* the field list of an ancillary type
FieldList(type) ==
    CASE type = "PHOTON_ANC_TYPE" -> parms.atl03_ph_fields
      [] type = "EXTENT_ANC_TYPE" -> parms.atl03_geo_fields
      [] type = "ATL08_ANC_TYPE" -> parms.atl08_fields

\* the number of land segments that end before an ATL03 segment
LandSegmentsBefore(b, segment_id) ==
    Cardinality({ j \in 1..Len(data[b].segment_id_beg) :
                    data[b].segment_id_beg[j] + NUM_ATL03_SEGS_IN_ATL08_SEG
                        <= segment_id })

\* the photon of an extent has no row in the ATL08 product
Unclassed(b, ph) == At(wk[b].atl08.matched, ph.index) = -1

\* the element that field f of an ancillary type holds for a photon of an
\* extent, taken from the datasets of the beam
ElementOf(b, type, f, ph) ==
    CASE type = "PHOTON_ANC_TYPE" ->
            data[b].anc_ph[f][wk[b].region.first_photon + ph.index + 1]
      [] type = "EXTENT_ANC_TYPE" ->
            data[b].anc_geo[f][wk[b].region.first_segment + ph.segment + 1]
      [] type = "ATL08_ANC_TYPE" ->
            IF Unclassed(b, ph) THEN FilledElement
            ELSE data[b].anc_seg[f][
                    LandSegmentsBefore(b,
                        At(wk[b].atl03.segment_id, ph.segment)) + 1]

\* the number of records of the same type before record i of a container
PositionInList(m, i) ==
    Cardinality({ j \in 2..(i - 1) :
                    m.records[j].anc_type = m.records[i].anc_type })

AncillaryRecordRight(m, i) ==
    LET r == m.records[i]
        photons == m.records[1].photons
        fields == FieldList(r.anc_type)
    IN /\ r.num_elements = Len(photons)
       /\ Len(r.data) = r.num_elements
       /\ r.field_index = PositionInList(m, i)
       /\ r.field_index < Len(fields)
       /\ \A p \in 1..Len(photons) :
            /\ r.data[p] = ElementOf(m.beam, r.anc_type,
                                     fields[r.field_index + 1], photons[p])
            /\ r.data[p] = FilledElement
                    <=> /\ r.anc_type = "ATL08_ANC_TYPE"
                        /\ Unclassed(m.beam, photons[p])

\* C28: every ancillary record of an extent has as many elements as the
\* extent record has photons, its field_index is the position of its field
\* in the configured list, and its p-th element is the element of the
\* field's array at the index of the p-th photon (its photon, its segment,
\* its land segment), or all 0xFF bytes exactly when that index is the
\* invalid index.
C28_AncillaryElements ==
    \A m \in Messages :
        m.type = "conrec" =>
            \A i \in 2..Len(m.records) : AncillaryRecordRight(m, i)

\* an accepted container of a cropped beam whose ATL08 record holds a filled
\* element and an element of the second land segment
C28_Witness ==
    \E i \in 1..Len(outQ) :
        /\ outQ[i].type = "conrec"
        /\ wk[outQ[i].beam].region.first_segment > 0
        /\ \E j \in 2..Len(outQ[i].records) :
            /\ outQ[i].records[j].anc_type = "ATL08_ANC_TYPE"
            /\ \E p, q \in 1..Len(outQ[i].records[j].data) :
                /\ outQ[i].records[j].data[p] = FilledElement
                /\ outQ[i].records[j].data[q] = <<"land1", 2>>

\* the non-empty segments of a beam (0-based) inside and outside the region
InsideSegments(b) ==
    { s \in 0..(Len(data[b].cnt) - 1) :
        At(data[b].incl, s) /\ At(data[b].cnt, s) # 0 }

OutsideSegments(b) ==
    { s \in 0..(Len(data[b].cnt) - 1) :
        ~At(data[b].incl, s) /\ At(data[b].cnt, s) # 0 }

Least(S) == CHOOSE x \in S : \A y \in S : x <= y

\* the segment that ends the polygon crop: the first non-empty segment
\* outside the polygon after the first segment, or the end of the array
PolyEnd(b) ==
    LET later == { s \in OutsideSegments(b) : s > Least(InsideSegments(b)) }
    IN IF later = {} THEN Len(data[b].cnt) ELSE Least(later)

PolyCropped(b) == Started(b) /\ parms.filter = "poly"

\* C29: the polygon crop starts at the first segment that is inside the
\* polygon and non-empty and ends immediately before the first later
\* segment that is outside the polygon and non-empty, or at the end of the
\* array; empty segments neither start nor end it, and the photons of the
\* segments from the ending segment on, inside the polygon or not, are not
\* part of it.
C29_PolygonCrop ==
    \A b \in Beams :
        PolyCropped(b) =>
            LET r == wk[b].region
                cnt == data[b].cnt
            IN /\ InsideSegments(b) # {}
               /\ r.first_segment = Least(InsideSegments(b))
               /\ r.first_segment + r.num_segments = PolyEnd(b)
               /\ r.first_photon = SumRange(cnt, 0, r.first_segment)
               /\ r.num_photons = SumRange(cnt, r.first_segment, PolyEnd(b))
               /\ r.segment_ph_cnt = Trim(cnt, r.first_segment)

\* a crop that ends before photons that are inside the polygon again
C29_Witness ==
    \E b \in Beams :
        /\ PolyCropped(b)
        /\ \E s \in InsideSegments(b) : s > PolyEnd(b)

Greatest(S) == CHOOSE x \in S : \A y \in S : x >= y

RasterCropped(b) == Started(b) /\ parms.filter = "raster"

\* C30: the raster crop starts at the first non-empty segment that the
\* raster includes and ends with the last non-empty included segment of the
\* whole array: num_segments = last_segment - first_segment + 1, num_photons
\* is the sum of the counts from first_segment through last_segment, the
\* segments in between that the raster does not include counted too, and
\* the segments after last_segment and their photons are not read.
C30_RasterCrop ==
    \A b \in Beams :
        RasterCropped(b) =>
            LET r == wk[b].region
                cnt == data[b].cnt
                first == Least(InsideSegments(b))
                last == Greatest(InsideSegments(b))
            IN /\ InsideSegments(b) # {}
               /\ r.first_segment = first
               /\ r.num_segments = last - first + 1
               /\ r.first_photon = SumRange(cnt, 0, first)
               /\ r.num_photons = SumRange(cnt, first, last + 1)
               /\ wk[b].atl03.segment_id
                    = SubSeq(data[b].seg_id, first + 1, last + 1)
               /\ Len(wk[b].atl03.ph) = SumRange(cnt, first, last + 1)

\* a raster crop that keeps the photons of a segment outside the raster
\* between two included segments
C30_Witness ==
    \E b \in Beams :
        /\ RasterCropped(b)
        /\ \E s \in OutsideSegments(b) :
                /\ s > wk[b].region.first_segment
                /\ s < wk[b].region.first_segment + wk[b].region.num_segments

\* version 2 has scored the beam
ScoredV2 == yapc.pc = "scored" /\ yapc.s.version = 2

\* C31: in every iteration s of the segment loop of YAPC version 2 the
\* center band [ph_c0, ph_c1) is the range of the photons of segment s:
\* ph_c0 is the sum of the counts of the segments before s and ph_c1 is
\* ph_c0 plus the count of s; the center bands of two iterations share no
\* photon.
C31_CenterBand ==
    ScoredV2 =>
        /\ Len(yapc.bands) = Len(yapc.y.cnt)
        /\ \A s \in 1..Len(yapc.bands) :
            /\ yapc.bands[s].ph_c0 = SumRange(yapc.y.cnt, 0, s - 1)
            /\ yapc.bands[s].ph_c1 = yapc.bands[s].ph_c0 + yapc.y.cnt[s]
        /\ \A s, t \in 1..Len(yapc.bands) :
            s < t => yapc.bands[s].ph_c1 <= yapc.bands[t].ph_c0

\* two segments with photons, the second one's band starts after the first
C31_Witness ==
    /\ ScoredV2
    /\ Len(yapc.bands) = 2
    /\ yapc.y.cnt[1] >= 1 /\ yapc.y.cnt[2] >= 1
    /\ yapc.bands[2].ph_c0 = yapc.y.cnt[1]

\* the photons of the segments s - 2 through s + 1 (0-based s), clipped to
\* the segments of the beam
BufferStart(cnt, s) == SumRange(cnt, 0, MaxOf(0, s - 2))

BufferEnd(cnt, s) == SumRange(cnt, 0, MinOf(Len(cnt), s + 2))

\* C32: in every iteration s of the segment loop of YAPC version 2 the
\* buffer band [ph_b0, ph_b1) is the range of the photons of the segments
\* s - 2 through s + 1, clipped to the existing segments; it contains the
\* center band and lies within [0, num_photons).
C32_BufferBand ==
    ScoredV2 =>
        \A s \in 1..Len(yapc.bands) :
            LET b == yapc.bands[s]
            IN /\ b.ph_b0 = BufferStart(yapc.y.cnt, s - 1)
               /\ b.ph_b1 = BufferEnd(yapc.y.cnt, s - 1)
               /\ b.ph_b0 <= b.ph_c0 /\ b.ph_c1 <= b.ph_b1
               /\ 0 <= b.ph_b0 /\ b.ph_b1 <= Len(yapc.y.along)

\* the ABoVE classifier has run on the photons of the beam
AboveClassified(b) ==
    /\ Started(b)
    /\ parms.stage_atl08 /\ parms.stage_phoreal /\ parms.above_classifier

\* the class of the ATL08 row of photon i (1-based) of the crop
RowClass(b, i) == At(data[b].rows, wk[b].atl08.matched[i]).flag

\* C33: with PhoREAL and the ABoVE classifier enabled, a photon with an
\* ATL08 row whose class is not top of canopy becomes top of canopy
\* exactly when the solar elevation of its segment (at the segment's
\* position in the crop) is at most 5 degrees, the spot of the beam is 1, 3
\* or 5, its signal confidence is CNF_SURFACE_HIGH and its relief is in
\* [0, 35); every other photon keeps the class of the join.
C33_AboveReclassification ==
    \A b \in Beams :
        AboveClassified(b) =>
            LET k == wk[b].atl08
                seg == PhotonSegments(wk[b].region.segment_ph_cnt, 0)
            IN \A i \in 1..Len(k.classification) :
                IF k.matched[i] = -1
                THEN k.classification[i] = ATL08_UNCLASSIFIED
                ELSE IF RowClass(b, i) = ATL08_TOP_OF_CANOPY
                THEN k.classification[i] = ATL08_TOP_OF_CANOPY
                ELSE /\ seg[i] < Len(wk[b].atl03.solar_elevation)
                     /\ k.classification[i] \in
                            {RowClass(b, i), ATL08_TOP_OF_CANOPY}
                     /\ k.classification[i] = ATL08_TOP_OF_CANOPY
                          <=> /\ At(wk[b].atl03.solar_elevation, seg[i]) <= 5
                              /\ data[b].spot \in {1, 3, 5}
                              /\ wk[b].atl03.ph[i].cnf = CNF_SURFACE_HIGH
                              /\ At(data[b].ph_h, k.matched[i]) >= 0
                              /\ At(data[b].ph_h, k.matched[i]) < 35

\* the join has taken land segment indexes for the photons of the beam
LandIndexed(b) ==
    /\ Started(b)
    /\ parms.stage_atl08
    /\ parms.stage_phoreal \/ parms.atl08_fields # << >>

\* C37: whenever the land cover, snow cover or ancillary segment index of
\* a photon with a row is taken from atl08_segment_index, the index is
\* within [0, size of segment_id_beg) and its land segment covers the
\* photon's ATL03 segment: segment_id_beg[i] <= segment_id[s] <
\* segment_id_beg[i] + NUM_ATL03_SEGS_IN_ATL08_SEG.
C37_LandSegmentCursor ==
    \A b \in Beams :
        LandIndexed(b) =>
            LET k == wk[b].atl08
                seg == PhotonSegments(wk[b].region.segment_ph_cnt, 0)
                beg == data[b].segment_id_beg
            IN \A i \in 1..Len(k.land_index) :
                k.matched[i] # -1 =>
                    /\ k.land_index[i] >= 0
                    /\ k.land_index[i] < Len(beg)
                    /\ At(beg, k.land_index[i])
                            <= At(wk[b].atl03.segment_id, seg[i])
                    /\ At(wk[b].atl03.segment_id, seg[i])
                            < At(beg, k.land_index[i])
                                + NUM_ATL03_SEGS_IN_ATL08_SEG

\* photon index ph is photon number count (from 1) of segment seg of the
\* crop, and the segment and the photon exist
CursorConsistent(b, ph, seg, count) ==
    /\ ph >= 0 /\ ph < Len(wk[b].atl03.ph)
    /\ seg >= 0 /\ seg < Len(wk[b].atl03.segment_dist_x)
    /\ count >= 1 /\ count <= At(wk[b].region.segment_ph_cnt, seg)
    /\ ph = SumRange(wk[b].region.segment_ph_cnt, 0, seg) + count - 1

\* the cursors at every photon that a walk of the beam visited
WalkCursorsConsistent(b) ==
    \A e \in 1..Len(wk[b].walks) :
        \A v \in 1..Len(wk[b].walks[e]) :
            LET at == wk[b].walks[e][v]
            IN CursorConsistent(b, at.index, at.segment, at.count)

\* the loop over extents is about to start an extent
ExtentStarts(b) ==
    wk[b].pc = "loop" /\ LoopContinues(active, wk[b].state)

\* the track is complete only because a walk reached the last photon
EndedAtLastPhoton(b) ==
    (Started(b) /\ wk[b].state.track_complete) =>
        /\ wk[b].walks # << >>
        /\ LET last == wk[b].walks[Len(wk[b].walks)]
           IN /\ last # << >>
              /\ last[Len(last)].index = Len(wk[b].atl03.ph) - 1

\* C34: the photon counts of the cropped segments sum to num_photons, and
\* at every array access of the photon walk current_photon < num_photons,
\* current_segment < num_segments, 1 <= current_count <=
\* segment_ph_cnt[current_segment] and current_photon is photon number
\* current_count of segment current_segment; the same holds for
\* (ph_in, seg_in, seg_ph + 1) at the start of every extent, and the track
\* never completes through the "photons with no segments" branch.
C34_CursorConsistency ==
    \A b \in Beams :
        Started(b) =>
            /\ SumRange(wk[b].region.segment_ph_cnt, 0,
                        Len(wk[b].atl03.segment_dist_x))
                    = Len(wk[b].atl03.ph)
            /\ WalkCursorsConsistent(b)
            /\ EndedAtLastPhoton(b)
            /\ ExtentStarts(b) =>
                    CursorConsistent(b, wk[b].state.ph_in, wk[b].state.seg_in,
                                     wk[b].state.seg_ph + 1)

\* the step is one iteration of the loop over extents of beam b that ran
\* to its end
OuterIteration(b) ==
    /\ wk[b].pc = "loop"
    /\ Len(wk'[b].walks) = Len(wk[b].walks) + 1

\* the iteration moved the first photon of the next extent or the start
\* distance forward, and did not move the first photon back
IterationAdvances(b) ==
    /\ wk'[b].state.ph_in >= wk[b].state.ph_in
    /\ \/ wk'[b].state.ph_in > wk[b].state.ph_in
       \/ wk'[b].state.start_distance > wk[b].state.start_distance

\* C35: with extent_step > 0, in meters mode and in segments mode, every
\* iteration of the loop over extents strictly advances ph_in or strictly
\* advances start_distance, and ph_in never decreases (the progress from
\* which the termination of the loop with track_complete follows).
C35_ExtentLoopProgress ==
    [][\A b \in Beams :
          (parms.extent_step > 0 /\ OuterIteration(b)) => IterationAdvances(b)]_vars

\* C36: in segments mode, at the start of every extent start_distance is
\* segment_dist_x[extent_segment], the along-track distance of the segment
\* that holds the extent's first photon (extent_segment is set from seg_in
\* when the extent starts), also when segments at the step boundary are
\* empty.
C36_SegmentsModeStart ==
    \A b \in Beams :
        (ExtentStarts(b) /\ parms.dist_in_seg) =>
            wk[b].state.start_distance
                = At(wk[b].atl03.segment_dist_x, wk[b].state.seg_in)

\* the record has the parser's format version and a type
WellFormed(r) == r.version = RECORD_FORMAT_VERSION /\ Len(r.type) >= 1

WellFormedResponse(c) ==
    \A k \in 1..Len(c.records) : WellFormed(c.records[k])

\* the offset in the stream of the end of the k-th record
RecordEnd(records, k) == Len(ResponseStream(SubSeq(records, 1, k)))

\* the records that lie wholly within the first pos bytes of the stream
CompleteRecords(records, pos) ==
    Cardinality({k \in 1..Len(records) : RecordEnd(records, k) <= pos})

\* every buffer but the one being filled was taken by the queue
AllPosted(c) ==
    \A i \in 1..Len(c.heap) :
        \/ c.heap[i].owner = "queue" /\ c.heap[i].frees = 0
        \/ c.parser.rec_size > 0 /\ i = c.parser.rec_buf

\* the queues after one call of postRecords with the whole stream, every
\* post successful
SingleBuffer(stream) ==
    { d.outq : d \in { e \in postRecordsLoop(
                                [IdleCurl EXCEPT !.stream = stream],
                                stream, 0, Len(stream)) : AllPosted(e) } }

\* C38: for a stream of well-formed records (a header of the parser's
\* version followed by type and data bytes) delivered in any sequence of
\* callback buffers: whenever the delivered bytes end on the end of a record
\* the parser's hdr_index, rec_index and rec_size are zero; as long as every
\* post succeeds the queue holds exactly the records that are complete in
\* the delivered bytes, in order; and once the stream is delivered the queue
\* is the one that a single buffer with the whole stream gives.
C38_ChunkingIndependence ==
    (curl.pc = "perform" /\ WellFormedResponse(curl)) =>
        /\ (\E k \in 0..Len(curl.records) :
                curl.pos = RecordEnd(curl.records, k))
              => BetweenRecords(curl.parser)
        /\ AllPosted(curl) =>
              curl.outq = [k \in 1..CompleteRecords(curl.records, curl.pos) |->
                             Serialize(curl.records[k])]
        /\ (AllPosted(curl) /\ curl.pos = Len(curl.stream))
              => SingleBuffer(curl.stream) = {curl.outq}

\* a response of two well-formed records was delivered in buffers that
\* ended within a record, and both records are in the queue
C38_Witness ==
    /\ curl.pc = "perform"
    /\ WellFormedResponse(curl)
    /\ Len(curl.records) >= 2
    /\ curl.pos = Len(curl.stream)
    /\ curl.split
    /\ AllPosted(curl)
    /\ Len(curl.outq) = Len(curl.records)

\* the buffer went to the queue by a successful postRef and was not freed
HandedOver(block) == block.owner = "queue" /\ block.frees = 0

\* the buffer stayed with the parser and was freed once
FreedOnce(block) == block.owner = "parser" /\ block.frees = 1

\* C39: when postAsRecord has returned, every record buffer that the parser
\* allocated was either taken by the queue in a successful postRef or freed
\* exactly once: none is leaked and none is freed twice.
C39_BufferOwnership ==
    curl.pc = "returned" =>
        \A i \in 1..Len(curl.heap) :
            HandedOver(curl.heap[i]) \/ FreedOnce(curl.heap[i])

=============================================================================
